---------------------------- MODULE Spec2Model ----------------------------
(***************************************************************************)
(* A model of the ledger core of the Quantum Financial System:             *)
(* src/qfs/blockchain/quantum_blockchain.py (Block and QuantumBlockchain). *)
(*                                                                         *)
(* Values.  A JSON value is a record [t, s, n]: a string (t = "str") or a  *)
(* number (t = "num").  A transaction is a Python dict: a sequence of      *)
(* [k, v] pairs with distinct keys, in insertion order.                    *)
(*                                                                         *)
(* Hashing.  hashlib.sha3_256(json.dumps(.., sort_keys=True)).hexdigest()  *)
(* is modelled as a record [hex, rest]: hex is the sequence of the digest's *)
(* HashLen hexadecimal characters, computed from the serialized block by a *)
(* deterministic mixing function; rest is the serialized block itself and  *)
(* stands for collision resistance (two digests are equal only if the      *)
(* serialized blocks are equal).                                           *)
(*                                                                         *)
(* Time.  time.time() is the wall clock: each read is an input drawn from  *)
(* Times, with no order between successive reads.                          *)
(*                                                                         *)
(* Specifications.  Spec runs the public methods one after the other, each *)
(* call a single step.  SpecMining runs the constructor and                *)
(* mine_pending_transactions step by step, one iteration of the nonce      *)
(* search at a time.  SpecThreads runs add_transaction and                 *)
(* mine_pending_transactions from two threads of the caller, the steps of  *)
(* the calls interleaved the way the interpreter can switch threads.       *)
(* SpecAliasing adds the caller writing to a transaction dict it passed    *)
(* to add_transaction.  SpecPortals and SpecTreasury run the galactic      *)
(* framework's portal and treasury methods, SpecCompliance the compliance  *)
(* engine, SpecDistributor the wealth distributor and SpecEncryption the   *)
(* encryption object together with the caller's edits of a ciphertext.     *)
(***************************************************************************)
EXTENDS Integers, Sequences, FiniteSets, TLC

\* chain, pending_transactions, difficulty: the attributes of the ledger.
\* raised: the exception the latest call raised, "" when it returned.
\* calls: for each thread of the caller, the constructor or
\* mine_pending_transactions call it is in the middle of, if any.
\* accepted: a record of history, read by no operation: the transactions
\* add_transaction has accepted while a mine_pending_transactions call was
\* between its copy of the pool and its reset of the pool (window), and
\* the ones it has accepted at any other time (outside).
\* objects: which of the dicts that enter the pool are one object; for the
\* k-th dict to enter, by add_transaction or as a reward, the first dict
\* of that order that is the same object.  The caller's program fixes it.
\* encryption, distributor, compliance, framework: the RoseGoldEncryption,
\* WealthDistributor, NESARAGESARACompliance and GalacticFederationFramework
\* objects of the program, each with the outcome of the latest call on it;
\* Absent while the object has not been constructed.
VARIABLES chain, pending_transactions, difficulty, raised, calls, accepted,
          objects, encryption, distributor, compliance, framework

ledger ==
  <<chain, pending_transactions, difficulty, raised, calls, accepted, objects>>

subsystems == <<encryption, distributor, compliance, framework>>

vars == <<chain, pending_transactions, difficulty, raised, calls, accepted,
          objects, encryption, distributor, compliance, framework>>

(***************************************************************************)
(* Bounds of the model.                                                    *)
(***************************************************************************)
\* Largest number of calls that change the ledger (add_transaction calls
\* that return, and mine_pending_transactions calls) in one run.
MaxCalls == 3
\* Largest number of mine_pending_transactions calls that are run step by
\* step in one run.
MaxMines == 2

\* Largest number of calls that change galactic_treasury_balance in one
\* run.
MaxTreasury == 3

\* Largest number of reports kept in compliance_records.
MaxRecords == 1

\* Largest number of distributions kept in distribution_history.
MaxDistributions == 1

\* Largest number of random master keys an object draws in one run, the
\* one of the constructor included.
MaxRandomKeys == 3

(***************************************************************************)
(* Constants of the program and the inputs of its methods.                 *)
(***************************************************************************)
\* Number of hexadecimal characters of a digest (64 in the source).
HashLen == 2
\* self.mining_reward
mining_reward == 100

\* Readings of time.time().
Times == {0, 1}
\* Difficulties a ledger is constructed with.  The constructor mines the
\* genesis block and returns only if a digest can carry the prefix, so no
\* ledger exists for a difficulty above HashLen.
Difficulties == 0 .. HashLen
\* Miner addresses passed to mine_pending_transactions.
Miners == {"miner1"}
\* Addresses passed to get_balance.
Addresses == {"alice", "bob", "miner1", "system", ""}
\* Threads of the caller.
Threads == {1, 2}

(***************************************************************************)
(* JSON values and dicts.                                                  *)
(***************************************************************************)
Str(s) == [t |-> "str", s |-> s, n |-> 0]
Num(n) == [t |-> "num", s |-> "", n |-> n]
\* The value of dict.get(key) for a missing key.
None == [t |-> "none", s |-> "", n |-> 0]

KV(k, v) == [k |-> k, v |-> v]

Keys(d) == {d[i].k : i \in DOMAIN d}

\* key in d
Has(d, k) == k \in Keys(d)

\* d.get(k)
Get(d, k) == IF Has(d, k) THEN d[CHOOSE i \in DOMAIN d : d[i].k = k].v ELSE None

\* d.get(k, 0)
GetOr0(d, k) == IF Has(d, k) THEN Get(d, k) ELSE Num(0)

\* The keys the model uses, in the order sort_keys=True puts them.
KeysSorted == <<"amount", "from", "message", "to", "type">>

KeyRank(k) == CHOOSE i \in DOMAIN KeysSorted : KeysSorted[i] = k

\* json.dumps(d, sort_keys=True) of one dict: its pairs in key order.
SortKeys(d) ==
  LET ordered == SelectSeq(KeysSorted, LAMBDA k : k \in Keys(d))
  IN  [i \in 1 .. Len(ordered) |-> KV(ordered[i], Get(d, ordered[i]))]

\* Equality of two dicts in Python: the same keys with the same values,
\* whatever the insertion order.
DictEq(a, b) == Keys(a) = Keys(b) /\ \A k \in Keys(a) : Get(a, k) = Get(b, k)

Reverse(seq) == [j \in 1 .. Len(seq) |-> seq[Len(seq) + 1 - j]]

(***************************************************************************)
(* Block and its hash.                                                     *)
(***************************************************************************)
\* The literal previous_hash "0" of the genesis block: a one-character
\* string that is no digest.
ZeroHash == [hex |-> <<0>>, rest |-> <<>>]

\* Number of digests of HashLen hexadecimal characters.
Modulus == 16 ^ HashLen

StrCode(s) ==
  CASE s = "alice" -> 1
    [] s = "bob" -> 2
    [] s = "miner1" -> 3
    [] s = "system" -> 4
    [] s = "" -> 5
    [] s = "abc" -> 6
    [] s = "mining_reward" -> 7
    [] s = "genesis" -> 8
    [] s = "ScrollSoul Sovereign Treasury Genesis" -> 9
    [] OTHER -> 10

ValCode(v) == IF v.t = "num" THEN (2 * v.n + 1) % Modulus ELSE 2 * StrCode(v.s)

RECURSIVE DictCode(_, _)
DictCode(pairs, h) ==
  IF pairs = <<>> THEN h
  ELSE DictCode(Tail(pairs),
                (h * 31 + 7 * KeyRank(Head(pairs).k) + ValCode(Head(pairs).v)) % Modulus)

RECURSIVE TxsCode(_, _)
TxsCode(txs, h) ==
  IF txs = <<>> THEN h
  ELSE TxsCode(Tail(txs), (h * 37 + DictCode(Head(txs), 1)) % Modulus)

RECURSIVE HexCode(_, _)
HexCode(digits, h) ==
  IF digits = <<>> THEN h
  ELSE HexCode(Tail(digits), (h * 16 + Head(digits) + 1) % Modulus)

\* The hexadecimal characters of a number below Modulus, most significant
\* first.
Hex(x) == [i \in 1 .. HashLen |-> (x \div (16 ^ (HashLen - i))) % 16]

\* json.dumps without sort_keys for the dicts of the transactions.
json_dumps_Unsorted(b) ==
  <<b.index, b.nonce, b.previous_hash, b.timestamp, b.transactions>>

\* json.dumps(block_data, sort_keys=True): the five fields in key order
\* (index, nonce, previous_hash, timestamp, transactions), every
\* transaction with its keys sorted.
json_dumps(b) ==
  <<b.index, b.nonce, b.previous_hash, b.timestamp,
    [i \in DOMAIN b.transactions |-> SortKeys(b.transactions[i])]>>

\* The digest of a serialized block, as a number below Modulus, mixes all
\* five fields.  DigestBase is the part that the nonce does not enter;
\* successive nonces add successive multiples of 13, an odd number, so a
\* search over the nonce meets every digest.
DigestBase(s) ==
  (101 * s[1] + 29 * HexCode(s[3].hex, 0) + 53 * s[4] + 3 * TxsCode(s[5], 0) + 17)
    % Modulus

DigestAt(base, nonce) == (base + 13 * nonce) % Modulus

Digest(s) == DigestAt(DigestBase(s), s[2])

\* hashlib.sha3_256(block_string.encode()).hexdigest()
sha3_256(s) == [hex |-> Hex(Digest(s)), rest |-> s]

\* Block.calculate_hash
calculate_hash(b) == sha3_256(json_dumps(b))

\* str.startswith("0" * d): a target longer than the string never matches,
\* "0" * d is empty for d <= 0.
StartsWithZeros(h, d) ==
  /\ d <= Len(h.hex)
  /\ \A i \in 1 .. d : h.hex[i] = 0

\* Block(index, timestamp, transactions, previous_hash): nonce 0 and, by
\* __post_init__, the hash of the initial fields.
Block(index, timestamp, transactions, previous_hash) ==
  LET b0 == [index |-> index, timestamp |-> timestamp,
             transactions |-> transactions, previous_hash |-> previous_hash,
             nonce |-> 0, hash |-> ZeroHash]
  IN  [b0 EXCEPT !.hash = calculate_hash(b0)]

\* mine_block with the hash left as it was before the search.
mine_block_StaleHash(b, d) ==
  IF StartsWithZeros(b.hash, d) THEN b
  ELSE
    LET base  == DigestBase(json_dumps(b))
        Ok(n) == StartsWithZeros([hex |-> Hex(DigestAt(base, n))], d)
        hits  == {n \in b.nonce + 1 .. b.nonce + Modulus : Ok(n)}
    IN  [b EXCEPT !.nonce = CHOOSE n \in hits : \A m \in hits : n <= m]

\* mine_block with the search skipped.
mine_block_Unmined(b, d) == b

\* Block.mine_block: the loop stops at the first nonce, from the block's
\* own upwards, whose hash has the prefix; the hash is left untouched when
\* it has the prefix already.
mine_block(b, d) ==
  IF StartsWithZeros(b.hash, d) THEN b
  ELSE
    LET base  == DigestBase(json_dumps(b))
        \* Whether calculate_hash() with nonce n has the prefix: the hex
        \* characters of sha3_256(json_dumps([b EXCEPT !.nonce = n])).
        Ok(n) == StartsWithZeros([hex |-> Hex(DigestAt(base, n))], d)
        hits  == {n \in b.nonce + 1 .. b.nonce + Modulus : Ok(n)}
        nonce == CHOOSE n \in hits : \A m \in hits : n <= m
        b1    == [b EXCEPT !.nonce = nonce]
    IN  [b1 EXCEPT !.hash = calculate_hash(b1)]

(***************************************************************************)
(* Transactions the callers submit.                                        *)
(***************************************************************************)
Tx(from, to, amount) ==
  <<KV("from", Str(from)), KV("to", Str(to)), KV("amount", Num(amount))>>

\* A transfer, a self-transfer of a negative amount, and a transaction
\* whose keys are present with an empty sender and receiver and a string
\* for an amount.
WellKeyed ==
  { Tx("alice", "bob", 50),
    Tx("bob", "bob", -7),
    <<KV("from", Str("")), KV("to", Str("")), KV("amount", Str("abc"))>> }

\* Transactions that lack 'from', 'to' or 'amount'.
IllKeyed ==
  { <<KV("to", Str("bob")), KV("amount", Num(5))>>,
    <<KV("from", Str("alice")), KV("amount", Num(5))>>,
    <<KV("from", Str("alice")), KV("to", Str("bob"))>> }

TxInputs == WellKeyed \cup IllKeyed

\* The transaction of the genesis block.
GenesisTx ==
  <<KV("type", Str("genesis")),
    KV("message", Str("ScrollSoul Sovereign Treasury Genesis"))>>

\* The mining reward transaction that reseeds the pool.
RewardTx(miner_address) ==
  <<KV("from", Str("system")), KV("to", Str(miner_address)),
    KV("amount", Num(mining_reward)), KV("type", Str("mining_reward"))>>

\* create_genesis_block that numbers the first block 1.
create_genesis_block_IndexOne(d, now) ==
  mine_block(Block(1, now, <<GenesisTx>>, ZeroHash), d)

(***************************************************************************)
(* QuantumBlockchain: the pure parts of its methods.                       *)
(***************************************************************************)
\* _create_genesis_block: the block appended to the empty chain.
create_genesis_block(d, now) == mine_block(Block(0, now, <<GenesisTx>>, ZeroHash), d)

\* get_latest_block that returns the first block.
get_latest_block_First(ch) == ch[1]

\* get_latest_block: self.chain[-1]
get_latest_block(ch) == ch[Len(ch)]

\* LacksRequiredKey that looks for 'from' alone.
LacksRequiredKey_FromOnly(t) == ~Has(t, "from")

\* LacksRequiredKey that also refuses a negative amount.
LacksRequiredKey_RejectsNegative(t) ==
  \/ ~Has(t, "from") \/ ~Has(t, "to") \/ ~Has(t, "amount")
  \/ GetOr0(t, "amount").n < 0

\* The condition under which add_transaction raises ValueError.
LacksRequiredKey(t) == ~Has(t, "from") \/ ~Has(t, "to") \/ ~Has(t, "amount")

\* NewBlock linked to the first block instead of the latest.
NewBlock_GenesisLink(ch, pool, d, now) ==
  mine_block(Block(Len(ch), now, pool, ch[1].hash), d)

\* NewBlock with the pool taken in reverse order.
NewBlock_ReversedPool(ch, pool, d, now) ==
  mine_block(Block(Len(ch), now, Reverse(pool), get_latest_block(ch).hash), d)

\* The block mine_pending_transactions builds from a copy of the pool and
\* mines.
NewBlock(ch, pool, d, now) ==
  mine_block(Block(Len(ch), now, pool, get_latest_block(ch).hash), d)

\* AppendBlock that overwrites the latest block.
AppendBlock_Overwrite(ch, b) == [ch EXCEPT ![Len(ch)] = b]

\* self.chain.append(new_block)
AppendBlock(ch, b) == Append(ch, b)

\* ResetPool that adds the reward to the pool it finds.
ResetPool_KeepPending(pool, miner_address) == Append(pool, RewardTx(miner_address))

\* ResetPool that leaves the pool empty.
ResetPool_NoReward(pool, miner_address) == <<>>

\* The pool after mining: a new list that holds the reward alone.
ResetPool(pool, miner_address) == <<RewardTx(miner_address)>>

\* The transactions of the blocks of a chain, in the order the loops of
\* get_balance visit them.
RECURSIVE ChainTxs(_)
ChainTxs(ch) ==
  IF ch = <<>> THEN <<>> ELSE Head(ch).transactions \o ChainTxs(Tail(ch))

\* BalanceStep that never subtracts: the sender keeps what it sends.
BalanceStep_NoDebit(bal, t, address) ==
  LET amt  == GetOr0(t, "amount")
      isto == Get(t, "to") = Str(address)
  IN  IF bal.raised # "" THEN bal
      ELSE IF isto /\ amt.t # "num"
           THEN [raised |-> "TypeError", val |-> 0]
           ELSE [raised |-> "", val |-> IF isto THEN bal.val + amt.n ELSE bal.val]

\* One iteration of the inner loop of get_balance on the running balance
\* bal: [raised, val].  Subtracting or adding an amount that is no number
\* raises TypeError, which ends the call.
BalanceStep(bal, t, address) ==
  LET amt    == GetOr0(t, "amount")
      isfrom == Get(t, "from") = Str(address)
      isto   == Get(t, "to") = Str(address)
      after1 == IF isfrom THEN bal.val - amt.n ELSE bal.val
      after2 == IF isto THEN after1 + amt.n ELSE after1
  IN  IF bal.raised # "" THEN bal
      ELSE IF (isfrom \/ isto) /\ amt.t # "num"
           THEN [raised |-> "TypeError", val |-> 0]
           ELSE [raised |-> "", val |-> after2]

RECURSIVE BalanceLoop(_, _, _)
BalanceLoop(txs, bal, address) ==
  IF txs = <<>> THEN bal
  ELSE BalanceLoop(Tail(txs), BalanceStep(bal, Head(txs), address), address)

\* get_balance(address) on a chain: [raised, val].
get_balance(ch, address) ==
  BalanceLoop(ChainTxs(ch), [raised |-> "", val |-> 0], address)

\* BlockChecks without the recomputation of the hash.
BlockChecks_NoRecompute(ch, d, i) ==
  IF ch[i].previous_hash # ch[i - 1].hash THEN FALSE
  ELSE IF ~StartsWithZeros(ch[i].hash, d) THEN FALSE
  ELSE TRUE

\* BlockChecks without the comparison of previous_hash.
BlockChecks_NoLink(ch, d, i) ==
  IF ch[i].hash # calculate_hash(ch[i]) THEN FALSE
  ELSE IF ~StartsWithZeros(ch[i].hash, d) THEN FALSE
  ELSE TRUE

\* BlockChecks without the proof-of-work check.
BlockChecks_NoProofOfWork(ch, d, i) ==
  IF ch[i].hash # calculate_hash(ch[i]) THEN FALSE
  ELSE IF ch[i].previous_hash # ch[i - 1].hash THEN FALSE
  ELSE TRUE

\* The three checks of is_chain_valid on block i (i >= 2 here: sequences
\* start at 1), in the order of the source.
BlockChecks(ch, d, i) ==
  IF ch[i].hash # calculate_hash(ch[i]) THEN FALSE
  ELSE IF ch[i].previous_hash # ch[i - 1].hash THEN FALSE
  ELSE IF ~StartsWithZeros(ch[i].hash, d) THEN FALSE
  ELSE TRUE

\* is_chain_valid: the loop over range(1, len(chain)), which returns False
\* at the first block that fails a check.
RECURSIVE ValidFrom(_, _, _)
ValidFrom(ch, d, i) ==
  IF i > Len(ch) THEN TRUE
  ELSE IF ~BlockChecks(ch, d, i) THEN FALSE
  ELSE ValidFrom(ch, d, i + 1)

is_chain_valid(ch, d) == ValidFrom(ch, d, 2)

\* get_chain_info
get_chain_info(ch, pool, d) ==
  [length |-> Len(ch),
   difficulty |-> d,
   is_valid |-> is_chain_valid(ch, d),
   pending_transactions |-> Len(pool),
   latest_block |-> [index |-> get_latest_block(ch).index,
                     hash |-> get_latest_block(ch).hash,
                     timestamp |-> get_latest_block(ch).timestamp]]

(***************************************************************************)
(* The state machine: one action per public operation.  The values the    *)
(* queries return are the operators above, applied to the state.           *)
(***************************************************************************)
\* Number of transactions the callers have submitted successfully: all the
\* transactions held, less the genesis transaction and the rewards.
CallerTxCount ==
  Len(ChainTxs(chain)) + Len(pending_transactions) - 1 - (Len(chain) - 1)

\* Number of calls so far that changed the ledger.
Calls == CallerTxCount + Len(chain) - 1

\* A thread that is in no constructor or mine_pending_transactions call.
\* op is "init" or "mine", pc the position in the call, block the local
\* block, miner the miner_address argument.  The positions of a
\* mine_pending_transactions call: "time", "pool" and "latest" in the
\* Block(...) call, before the argument of that name is evaluated (block
\* holds the arguments evaluated so far); "search" in mine_block; "reset"
\* before the assignment to pending_transactions.
NoBlock ==
  [index |-> 0, timestamp |-> 0, transactions |-> <<>>,
   previous_hash |-> ZeroHash, nonce |-> 0, hash |-> ZeroHash]
IdleCall == [op |-> "", pc |-> "idle", block |-> NoBlock, miner |-> ""]

\* Some thread is in a mine_pending_transactions call, past its copy of
\* the pool and before its reset of the pool.
MineInFlight ==
  \E th \in Threads :
    calls[th].op = "mine" /\ calls[th].pc \in {"latest", "search", "reset"}

NoneAccepted == [window |-> {}, outside |-> {}]

\* An object that has not been constructed.
Absent == [constructed |-> FALSE]

\* The program has constructed a ledger only.
LedgerOnly ==
  /\ encryption = Absent
  /\ distributor = Absent
  /\ compliance = Absent
  /\ framework = Absent

\* Every dict that enters the pool is an object of its own: the caller
\* passes no dict twice.
OwnDicts == [k \in 1 .. MaxCalls |-> k]

\* QuantumBlockchain(difficulty)
NewLedger ==
  \E d \in Difficulties, now \in Times :
    /\ difficulty = d
    /\ chain = <<create_genesis_block(d, now)>>
    /\ pending_transactions = <<>>
    /\ raised = ""
    /\ calls = [th \in Threads |-> IdleCall]
    /\ accepted = NoneAccepted
    /\ LedgerOnly

Init == NewLedger /\ objects = OwnDicts

AddTransaction(t) ==
  IF LacksRequiredKey(t)
  THEN /\ raised' = "ValueError"
       /\ UNCHANGED <<subsystems, objects, chain, pending_transactions, difficulty, calls, accepted>>
  ELSE /\ Calls < MaxCalls
       /\ pending_transactions' = Append(pending_transactions, t)
       /\ raised' = ""
       /\ accepted' = IF MineInFlight
                      THEN [accepted EXCEPT !.window = @ \cup {t}]
                      ELSE [accepted EXCEPT !.outside = @ \cup {t}]
       /\ UNCHANGED <<subsystems, objects, chain, difficulty, calls>>

MinePendingTransactions(miner_address, now) ==
  /\ Calls < MaxCalls
  /\ chain' = AppendBlock(chain,
                          NewBlock(chain, pending_transactions, difficulty, now))
  /\ pending_transactions' = ResetPool(pending_transactions, miner_address)
  /\ raised' = ""
  /\ UNCHANGED <<subsystems, objects, difficulty, calls, accepted>>

\* Returns get_balance(chain, address).val unless it raises.
GetBalance(address) ==
  /\ raised' = get_balance(chain, address).raised
  /\ UNCHANGED <<subsystems, objects, chain, pending_transactions, difficulty, calls, accepted>>

\* Returns is_chain_valid(chain, difficulty).
IsChainValid ==
  /\ raised' = ""
  /\ UNCHANGED <<subsystems, objects, chain, pending_transactions, difficulty, calls, accepted>>

\* GetChainInfo that empties the pool it has counted.
GetChainInfo_ClearsPool ==
  /\ raised' = ""
  /\ pending_transactions' = <<>>
  /\ UNCHANGED <<subsystems, objects, chain, difficulty, calls, accepted>>

\* Returns get_chain_info(chain, pending_transactions, difficulty).
GetChainInfo ==
  /\ raised' = ""
  /\ UNCHANGED <<subsystems, objects, chain, pending_transactions, difficulty, calls, accepted>>

Next ==
  \/ \E t \in TxInputs : AddTransaction(t)
  \/ \E m \in Miners, now \in Times : MinePendingTransactions(m, now)
  \/ \E a \in Addresses : GetBalance(a)
  \/ IsChainValid
  \/ GetChainInfo

Spec == Init /\ [][Next]_vars

(***************************************************************************)
(* The constructor and mine_pending_transactions step by step.  A thread   *)
(* can be switched out between any two steps; a step reads or writes one   *)
(* attribute of the ledger.                                                *)
(***************************************************************************)
\* Difficulties a constructor is called with: one more than a digest has
\* characters.
ConstructDifficulties == 0 .. HashLen + 1
\* Difficulties of the ledgers the threads share.
ThreadDifficulties == {0, 1}
\* Transactions the threads pass to add_transaction: one that is accepted,
\* one that is refused.
ThreadTxInputs ==
  {Tx("alice", "bob", 50), <<KV("from", Str("alice")), KV("to", Str("bob"))>>}
\* The thread that runs the calls of SpecMining.
MiningThread == 1

\* The nonces after which a search has met every digest the block can
\* have.  The source has no such limit: the model stops following a search
\* there.
MaxNonce == Modulus

\* One turn of the loop with the hash left as it was.
SearchIteration_StaleHash(b) == [b EXCEPT !.nonce = b.nonce + 1]

\* One turn of the loop of mine_block: nonce += 1, hash = calculate_hash().
SearchIteration(b) ==
  LET b1 == [b EXCEPT !.nonce = b.nonce + 1]
  IN  [b1 EXCEPT !.hash = calculate_hash(b1)]

\* mine_pending_transactions calls so far: the blocks appended and the
\* calls that have not appended theirs yet.
MinesStarted ==
  Len(chain) - 1
    + Cardinality({th \in Threads :
                     calls[th].op = "mine"
                       /\ calls[th].pc \in {"time", "pool", "latest", "search"}})

\* QuantumBlockchain(difficulty) up to the start of the search for the
\* genesis block.
InitMining ==
  \E d \in ConstructDifficulties, now \in Times :
    /\ difficulty = d
    /\ chain = <<>>
    /\ pending_transactions = <<>>
    /\ raised = ""
    /\ calls = [th \in Threads |->
                 IF th = MiningThread
                 THEN [op |-> "init", pc |-> "search",
                       block |-> Block(0, now, <<GenesisTx>>, ZeroHash),
                       miner |-> ""]
                 ELSE IdleCall]
    /\ accepted = NoneAccepted
    /\ objects = OwnDicts
    /\ LedgerOnly

\* A ledger constructed, shared by threads that are in no call.
InitThreads ==
  \E d \in ThreadDifficulties, now \in Times :
    /\ difficulty = d
    /\ chain = <<create_genesis_block(d, now)>>
    /\ pending_transactions = <<>>
    /\ raised = ""
    /\ calls = [th \in Threads |-> IdleCall]
    /\ accepted = NoneAccepted
    /\ objects = OwnDicts
    /\ LedgerOnly

\* The test of the while loop fails and the body runs once.
SearchStep(th) ==
  /\ calls[th].pc = "search"
  /\ ~StartsWithZeros(calls[th].block.hash, difficulty)
  /\ calls[th].block.nonce < MaxNonce
  /\ calls' = [calls EXCEPT ![th].block = SearchIteration(@)]
  /\ UNCHANGED <<subsystems, objects, chain, pending_transactions, difficulty, raised, accepted>>

\* The search for the genesis block ends; the constructor appends the
\* block and returns.
GenesisAppend(th) ==
  /\ calls[th].op = "init"
  /\ calls[th].pc = "search"
  /\ StartsWithZeros(calls[th].block.hash, difficulty)
  /\ chain' = AppendBlock(chain, calls[th].block)
  /\ calls' = [calls EXCEPT ![th] = IdleCall]
  /\ raised' = ""
  /\ UNCHANGED <<subsystems, objects, pending_transactions, difficulty, accepted>>

\* mine_pending_transactions evaluates the arguments of Block(...) one
\* after the other.  First index = len(self.chain).
MineReadLength(th, miner_address) ==
  /\ chain # <<>>
  /\ calls[th].pc = "idle"
  /\ MinesStarted < MaxMines
  /\ calls' = [calls EXCEPT ![th] =
                 [op |-> "mine", pc |-> "time",
                  block |-> [NoBlock EXCEPT !.index = Len(chain)],
                  miner |-> miner_address]]
  /\ UNCHANGED <<subsystems, objects, chain, pending_transactions, difficulty, raised, accepted>>

\* timestamp = time.time().
MineReadTime(th, now) ==
  /\ calls[th].op = "mine"
  /\ calls[th].pc = "time"
  /\ calls' = [calls EXCEPT ![th].pc = "pool", ![th].block.timestamp = now]
  /\ UNCHANGED <<subsystems, objects, chain, pending_transactions, difficulty, raised, accepted>>

\* transactions = self.pending_transactions.copy().
MineCopyPool(th) ==
  /\ calls[th].op = "mine"
  /\ calls[th].pc = "pool"
  /\ calls' = [calls EXCEPT ![th].pc = "latest",
                            ![th].block.transactions = pending_transactions]
  /\ UNCHANGED <<subsystems, objects, chain, pending_transactions, difficulty, raised, accepted>>

\* previous_hash = self.get_latest_block().hash, and the constructor of
\* Block, which sets the nonce to 0 and computes the hash.
MineReadLatest(th) ==
  /\ calls[th].op = "mine"
  /\ calls[th].pc = "latest"
  /\ calls' = [calls EXCEPT ![th].pc = "search",
                            ![th].block =
                              Block(@.index, @.timestamp, @.transactions,
                                    get_latest_block(chain).hash)]
  /\ UNCHANGED <<subsystems, objects, chain, pending_transactions, difficulty, raised, accepted>>

\* The search ends and mine_pending_transactions appends its block.
MineAppend(th) ==
  /\ calls[th].op = "mine"
  /\ calls[th].pc = "search"
  /\ StartsWithZeros(calls[th].block.hash, difficulty)
  /\ chain' = AppendBlock(chain, calls[th].block)
  /\ calls' = [calls EXCEPT ![th].pc = "reset"]
  /\ UNCHANGED <<subsystems, objects, pending_transactions, difficulty, raised, accepted>>

\* mine_pending_transactions replaces the pool and returns its block.
MineReset(th) ==
  /\ calls[th].pc = "reset"
  /\ pending_transactions' = ResetPool(pending_transactions, calls[th].miner)
  /\ calls' = [calls EXCEPT ![th] = IdleCall]
  /\ raised' = ""
  /\ UNCHANGED <<subsystems, objects, chain, difficulty, accepted>>

\* add_transaction called by a thread that is in no other call.
ThreadAdd(th, t) ==
  /\ calls[th].pc = "idle"
  /\ AddTransaction(t)

NextMining ==
  \/ SearchStep(MiningThread)
  \/ GenesisAppend(MiningThread)
  \/ \E m \in Miners : MineReadLength(MiningThread, m)
  \/ \E now \in Times : MineReadTime(MiningThread, now)
  \/ MineCopyPool(MiningThread)
  \/ MineReadLatest(MiningThread)
  \/ MineAppend(MiningThread)
  \/ MineReset(MiningThread)

SpecMining == InitMining /\ [][NextMining]_vars

NextThreads ==
  \/ \E th \in Threads, t \in ThreadTxInputs : ThreadAdd(th, t)
  \/ \E th \in Threads, m \in Miners : MineReadLength(th, m)
  \/ \E th \in Threads, now \in Times : MineReadTime(th, now)
  \/ \E th \in Threads : MineCopyPool(th)
  \/ \E th \in Threads : MineReadLatest(th)
  \/ \E th \in Threads : SearchStep(th)
  \/ \E th \in Threads : MineAppend(th)
  \/ \E th \in Threads : MineReset(th)

SpecThreads == InitThreads /\ [][NextThreads]_vars

\* The threads with the mine_pending_transactions calls all made by one
\* thread, hence one after the other.
NextOneMiner ==
  \/ \E th \in Threads, t \in ThreadTxInputs : ThreadAdd(th, t)
  \/ \E m \in Miners : MineReadLength(MiningThread, m)
  \/ \E now \in Times : MineReadTime(MiningThread, now)
  \/ MineCopyPool(MiningThread)
  \/ MineReadLatest(MiningThread)
  \/ SearchStep(MiningThread)
  \/ MineAppend(MiningThread)
  \/ MineReset(MiningThread)

SpecOneMiner == InitThreads /\ [][NextOneMiner]_vars

(***************************************************************************)
(* The caller's references.  add_transaction appends the caller's dict     *)
(* itself to the pool, and mine_pending_transactions copies the pool with  *)
(* list.copy(), which copies the list and not the dicts in it: the dict    *)
(* in a block is the object the caller passed and still holds.             *)
(***************************************************************************)
\* d[k] = v on a dict: the value of an existing key is replaced in place,
\* a new key goes to the end.
SetItem(d, k, v) ==
  IF Has(d, k)
  THEN [i \in DOMAIN d |-> IF d[i].k = k THEN KV(k, v) ELSE d[i]]
  ELSE Append(d, KV(k, v))

\* The amounts the caller writes into a transaction it passed earlier.
MutatedAmounts == {Num(51)}

\* Every dict the ledger holds after the genesis transaction, in the order
\* of the blocks and then of the pool, which is the order in which the
\* dicts entered the pool.
Stream == Tail(ChainTxs(chain)) \o pending_transactions

\* The ways a program of the caller passes dicts: each dict an object of
\* its own or an object that entered the pool before.
DictChoices ==
  {o \in [1 .. MaxCalls -> 1 .. MaxCalls] :
     \A k \in 1 .. MaxCalls : o[k] <= k /\ o[o[k]] = o[k]}

\* The dicts the caller passes: the transactions of the sequential runs,
\* as they are or after the caller wrote an amount into them.
AliasTxInputs ==
  TxInputs \cup {SetItem(t, "amount", v) : t \in WellKeyed, v \in MutatedAmounts}

\* The next dict to enter the pool is an object of its own.
NextDictOwn == objects[Len(Stream) + 1] = Len(Stream) + 1

\* add_transaction(t) where t is the object the caller's program passes
\* next: a dict of its own with any content, or a dict that entered the
\* pool before with the content it has now.
AliasAdd(t) ==
  /\ IF LacksRequiredKey(t) \/ Calls >= MaxCalls \/ NextDictOwn THEN TRUE
     ELSE t = Stream[objects[Len(Stream) + 1]]
  /\ AddTransaction(t)

\* mine_pending_transactions; the reward it puts in the pool is a new
\* dict.
AliasMine(miner_address, now) ==
  /\ Calls < MaxCalls => NextDictOwn
  /\ MinePendingTransactions(miner_address, now)

\* The number of dicts of the stream in the blocks before block i.
StreamBefore(i) == Len(ChainTxs(SubSeq(chain, 2, i - 1)))

\* The caller runs t['amount'] = v on a dict t it passed to add_transaction
\* earlier, the k-th dict of the stream.  add_transaction keeps the dict
\* itself and the lists of the pool and of the blocks refer to it: the
\* write shows in the pool or in the block the dict is in, at every place
\* where the same object is.
CallerMutates(k, v) ==
  /\ k \in DOMAIN Stream
  /\ Stream[k] \in WellKeyed
  /\ LET written ==
           [n \in DOMAIN Stream |->
              IF objects[n] = objects[k]
              THEN SetItem(Stream[n], "amount", v) ELSE Stream[n]]
     IN  /\ chain' =
              [i \in DOMAIN chain |->
                 IF i = 1 THEN chain[i]
                 ELSE [chain[i] EXCEPT
                         !.transactions =
                           SubSeq(written, StreamBefore(i) + 1,
                                  StreamBefore(i) + Len(chain[i].transactions))]]
         /\ pending_transactions' =
              SubSeq(written, Len(written) - Len(pending_transactions) + 1,
                     Len(written))
  /\ UNCHANGED <<subsystems, objects, difficulty, raised, calls, accepted>>

\* A new ledger and a program of the caller.
InitAliasing == NewLedger /\ objects \in DictChoices

NextAliasing ==
  \/ \E t \in AliasTxInputs : AliasAdd(t)
  \/ \E m \in Miners, now \in Times : AliasMine(m, now)
  \/ \E a \in Addresses : GetBalance(a)
  \/ IsChainValid
  \/ GetChainInfo
  \/ \E k \in 1 .. MaxCalls, v \in MutatedAmounts : CallerMutates(k, v)

SpecAliasing == InitAliasing /\ [][NextAliasing]_vars

(***************************************************************************)
(* Numbers.  The amounts, shares and ratios of the subsystems are Python   *)
(* floats: IEEE 754 binary64 numbers, and every +, -, * and / of the       *)
(* source rounds its exact result to the nearest of them, to the one with  *)
(* an even significand when two are equally near.  A float is modelled as  *)
(* the record [class, sign, mant, exp]: a finite float is                  *)
(* (-1)^sign * mant * 2^exp with mant a natural number below 2^53, written *)
(* as four limbs of 14 bits, the lowest first, and odd unless it is 0      *)
(* (then exp is 0), so that a float has one record; the results that need  *)
(* more than 53 bits, or bits below 2^-1074, are rounded, and those of     *)
(* 2^1024 and more are infinite.  float('inf') and float('nan') are the    *)
(* classes "inf" and "nan".  An int of the source that meets a float is    *)
(* converted to the float of the same value; the ints of the model are     *)
(* small enough for int arithmetic and float arithmetic to agree.          *)
(***************************************************************************)
Precision == 53
MinExponent == -1074
MaxExponent == 1024

\* Four limbs hold the significand and the bits kept for rounding.
LimbBits == (Precision + 3) \div 4
LimbBase == 2 ^ LimbBits

NoLimbs == <<0, 0, 0, 0>>
NaN == [class |-> "nan", sign |-> 0, mant |-> NoLimbs, exp |-> 0]
Infinity(sign) == [class |-> "inf", sign |-> sign, mant |-> NoLimbs, exp |-> 0]
FloatZero(sign) ==
  [class |-> "finite", sign |-> sign, mant |-> NoLimbs, exp |-> 0]
IsNaN(a) == a.class = "nan"
IsInfinite(a) == a.class = "inf"
IsZero(a) == a.class = "finite" /\ a.mant = NoLimbs

Abs(n) == IF n < 0 THEN -n ELSE n
Max(a, b) == IF a < b THEN b ELSE a

\* The limbs of a natural number below 2^31.
Limbs(n) ==
  <<n % LimbBase, (n \div LimbBase) % LimbBase, n \div (LimbBase * LimbBase), 0>>

\* The number of bits of a natural number below 2^31, and of four limbs.
RECURSIVE BitLength(_)
BitLength(n) == IF n = 0 THEN 0 ELSE 1 + BitLength(n \div 2)

Bits(m) ==
  IF m[4] # 0 THEN 3 * LimbBits + BitLength(m[4])
  ELSE IF m[3] # 0 THEN 2 * LimbBits + BitLength(m[3])
  ELSE IF m[2] # 0 THEN LimbBits + BitLength(m[2])
  ELSE BitLength(m[1])

\* The number of zero bits at the low end of a positive number.
RECURSIVE TrailingZeros(_)
TrailingZeros(n) == IF n % 2 = 1 THEN 0 ELSE 1 + TrailingZeros(n \div 2)

TrailingZeroBits(m) ==
  IF m[1] # 0 THEN TrailingZeros(m[1])
  ELSE IF m[2] # 0 THEN LimbBits + TrailingZeros(m[2])
  ELSE IF m[3] # 0 THEN 2 * LimbBits + TrailingZeros(m[3])
  ELSE 3 * LimbBits + TrailingZeros(m[4])

\* Limbs that have left 0 .. LimbBase - 1, carried upwards: l2 and l3 are
\* the second and third limb with what was carried into them.
CarryFromThird(m, l2, l3) ==
  <<m[1] % LimbBase, l2 % LimbBase, l3 % LimbBase, m[4] + l3 \div LimbBase>>
CarryFromSecond(m, l2) == CarryFromThird(m, l2, m[3] + l2 \div LimbBase)
Carry(m) == CarryFromSecond(m, m[2] + m[1] \div LimbBase)

AddLimbs(a, b) == Carry(<<a[1] + b[1], a[2] + b[2], a[3] + b[3], a[4] + b[4]>>)

\* a - b for a >= b: a limb below 0 borrows from the next.
SubLimbs(a, b) == Carry(<<a[1] - b[1], a[2] - b[2], a[3] - b[3], a[4] - b[4]>>)

\* a >= b.
GeLimbs(a, b) ==
  IF a[4] # b[4] THEN a[4] > b[4]
  ELSE IF a[3] # b[3] THEN a[3] > b[3]
  ELSE IF a[2] # b[2] THEN a[2] > b[2]
  ELSE a[1] >= b[1]

DoubleLimbs(m) == Carry(<<2 * m[1], 2 * m[2], 2 * m[3], 2 * m[4]>>)

\* m * 2^k, for a product below 2^56: by q whole limbs, then by the
\* factor p below LimbBase.
LimbsUp(m, q) ==
  CASE q = 0 -> m
    [] q = 1 -> <<0, m[1], m[2], m[3]>>
    [] q = 2 -> <<0, 0, m[1], m[2]>>
    [] q = 3 -> <<0, 0, 0, m[1]>>
TimesLimbs(s, p) == Carry(<<s[1] * p, s[2] * p, s[3] * p, s[4] * p>>)
ShiftLeft(m, k) == TimesLimbs(LimbsUp(m, k \div LimbBits), 2 ^ (k % LimbBits))

\* <<m \div 2^k, whether a bit that is 1 was shifted out>>: by q whole
\* limbs, of which lost tells whether one was not 0, then by the divisor
\* p below LimbBase.
LimbsDown(m, q) ==
  CASE q = 0 -> m
    [] q = 1 -> <<m[2], m[3], m[4], 0>>
    [] q = 2 -> <<m[3], m[4], 0, 0>>
    [] q = 3 -> <<m[4], 0, 0, 0>>
    [] OTHER -> NoLimbs
LimbsLost(m, q) ==
  CASE q = 0 -> FALSE
    [] q = 1 -> m[1] # 0
    [] q = 2 -> m[1] # 0 \/ m[2] # 0
    [] q = 3 -> m[1] # 0 \/ m[2] # 0 \/ m[3] # 0
    [] OTHER -> m # NoLimbs
OverLimbs(s, p, up, lost) ==
  << <<s[1] \div p + (s[2] % p) * up, s[2] \div p + (s[3] % p) * up,
       s[3] \div p + (s[4] % p) * up, s[4] \div p>>,
     lost \/ s[1] % p # 0 >>
ShiftRight(m, k) ==
  OverLimbs(LimbsDown(m, k \div LimbBits), 2 ^ (k % LimbBits),
            2 ^ (LimbBits - (k % LimbBits)), LimbsLost(m, k \div LimbBits))

\* The float (-1)^sign * m * 2^e for m of at most 53 bits and e of at
\* least MinExponent: t is the number of zero bits at the low end of m.
PackOdd(sign, m, e, t) ==
  [class |-> "finite", sign |-> sign, mant |-> ShiftRight(m, t)[1],
   exp |-> e + t]
Pack(sign, m, e) ==
  IF m = NoLimbs THEN FloatZero(sign)
  ELSE IF Bits(m) + e > MaxExponent THEN Infinity(sign)
  ELSE PackOdd(sign, m, e, TrailingZeroBits(m))

\* The float nearest to (-1)^sign * (m + f) * 2^e, where m is below 2^56
\* and f is 0, or some fraction between 0 and 1 when sticky holds (m then
\* has 54 bits or more): round half to even.  k is the number of bits
\* that m loses, t is m without k - 1 of them and half without all.
RoundHalf(sign, t, half, sticky, e) ==
  Pack(sign,
       IF /\ t[1][1] % 2 = 1
          /\ t[2] \/ sticky \/ half[1] % 2 = 1
       THEN AddLimbs(half, Limbs(1))
       ELSE half,
       e)
RoundLast(sign, t, sticky, e) ==
  RoundHalf(sign, t, ShiftRight(t[1], 1)[1], sticky, e)
RoundBits(sign, m, sticky, e, k) ==
  IF k = 0 THEN Pack(sign, m, e)
  ELSE RoundLast(sign, ShiftRight(m, k - 1), sticky, e + k)
Round(sign, m, sticky, e) ==
  RoundBits(sign, m, sticky, e,
            Max(Max(Bits(m) - Precision, MinExponent - e), 0))

\* The significand of a finite float that is not zero, shifted to n bits,
\* that is by k bits, with its exponent.
NormalisedBy(a, k) == [mant |-> ShiftLeft(a.mant, k), exp |-> a.exp - k]
Normalised(a, n) == NormalisedBy(a, n - Bits(a.mant))

\* -a and abs(a).
FloatNeg(a) == IF IsNaN(a) THEN a ELSE [a EXCEPT !.sign = 1 - @]
FloatAbs(a) == IF IsNaN(a) THEN a ELSE [a EXCEPT !.sign = 0]

\* The sum of two finite floats that are not zero, big of the sign given
\* and of the greater magnitude: low is the significand of the smaller,
\* shifted to the exponent of big, with the bit that tells whether that
\* lost a bit (the difference is then one less, and a fraction).
Difference(big, low) ==
  IF low[2] THEN SubLimbs(SubLimbs(big.mant, low[1]), Limbs(1))
  ELSE SubLimbs(big.mant, low[1])
RoundDifference(sign, diff, sticky, e) ==
  IF diff = NoLimbs THEN FloatZero(0) ELSE Round(sign, diff, sticky, e)
AddAligned(sign, big, low, same_sign) ==
  IF same_sign
  THEN Round(sign, AddLimbs(big.mant, low[1]), low[2], big.exp)
  ELSE RoundDifference(sign, Difference(big, low), low[2], big.exp)
AddOrdered(sign, big, small, same_sign) ==
  AddAligned(sign, big, ShiftRight(small.mant, big.exp - small.exp),
             same_sign)
AddNormalised(sign_x, x, sign_y, y) ==
  IF \/ x.exp > y.exp
     \/ x.exp = y.exp /\ GeLimbs(x.mant, y.mant)
  THEN AddOrdered(sign_x, x, y, sign_x = sign_y)
  ELSE AddOrdered(sign_y, y, x, sign_x = sign_y)

\* a + b.
FloatAdd(a, b) ==
  IF IsNaN(a) \/ IsNaN(b) THEN NaN
  ELSE IF IsInfinite(a)
       THEN IF IsInfinite(b) /\ b.sign # a.sign THEN NaN ELSE a
  ELSE IF IsInfinite(b) THEN b
  ELSE IF IsZero(a)
       THEN IF IsZero(b)
            THEN FloatZero(IF a.sign = 1 /\ b.sign = 1 THEN 1 ELSE 0)
            ELSE b
  ELSE IF IsZero(b) THEN a
  ELSE AddNormalised(a.sign, Normalised(a, Precision + 2),
                     b.sign, Normalised(b, Precision + 2))

\* a - b.
FloatSub(a, b) == FloatAdd(a, FloatNeg(b))

\* The sign of a product and of a quotient.
SignOf(a, b) == (a.sign + b.sign) % 2

\* The product of two significands of 53 bits: the sums of the products
\* of the limbs by position, and its eight limbs, the lowest first.
Columns(x, y) ==
  <<x[1] * y[1],
    x[1] * y[2] + x[2] * y[1],
    x[1] * y[3] + x[2] * y[2] + x[3] * y[1],
    x[1] * y[4] + x[2] * y[3] + x[3] * y[2] + x[4] * y[1],
    x[2] * y[4] + x[3] * y[3] + x[4] * y[2],
    x[3] * y[4] + x[4] * y[3],
    x[4] * y[4]>>

RECURSIVE CarryColumns(_, _, _)
CarryColumns(columns, i, carried) ==
  IF i > Len(columns) THEN <<carried>>
  ELSE <<(columns[i] + carried) % LimbBase>>
         \o CarryColumns(columns, i + 1,
                         (columns[i] + carried) \div LimbBase)

\* The float of the product p * 2^e: the upper 56 of the 106 bits of p
\* are rounded.
RoundProduct(sign, p, e) ==
  Round(sign,
        <<p[4] \div 256 + (p[5] % 256) * 64,
          p[5] \div 256 + (p[6] % 256) * 64,
          p[6] \div 256 + (p[7] % 256) * 64,
          p[7] \div 256 + p[8] * 64>>,
        p[1] # 0 \/ p[2] # 0 \/ p[3] # 0 \/ p[4] % 256 # 0,
        e + 50)
MulNormalised(sign, x, y) ==
  RoundProduct(sign, CarryColumns(Columns(x.mant, y.mant), 1, 0),
               x.exp + y.exp)

\* a * b.
FloatMul(a, b) ==
  IF IsNaN(a) \/ IsNaN(b) THEN NaN
  ELSE IF IsInfinite(a) \/ IsInfinite(b)
       THEN IF IsZero(a) \/ IsZero(b) THEN NaN ELSE Infinity(SignOf(a, b))
  ELSE IF IsZero(a) \/ IsZero(b) THEN FloatZero(SignOf(a, b))
  ELSE MulNormalised(SignOf(a, b), Normalised(a, Precision),
                     Normalised(b, Precision))

\* n bits of the quotient of r by d, the highest first, for r < 2 * d:
\* <<the remainder, doubled at every bit, the bits>>.
RECURSIVE QuotientBits(_, _, _, _)
QuotientBits(r, d, n, acc) ==
  IF n = 0 THEN <<r, acc>>
  ELSE IF GeLimbs(r, d)
       THEN QuotientBits(DoubleLimbs(SubLimbs(r, d)), d, n - 1, 2 * acc + 1)
       ELSE QuotientBits(DoubleLimbs(r), d, n - 1, 2 * acc)

\* n more limbs of such a quotient, after the limbs q and the bits
\* latest[2] with the remainder latest[1]: <<the remainder, the limbs of
\* the quotient, the lowest first>>.
RECURSIVE QuotientByBits(_, _, _, _)
QuotientByBits(latest, d, n, q) ==
  IF n = 0 THEN <<latest[1], <<latest[2]>> \o q>>
  ELSE QuotientByBits(QuotientBits(latest[1], d, LimbBits, 0), d, n - 1,
                      <<latest[2]>> \o q)

\* The value a division by zero has in the model: the source raises
\* ZeroDivisionError there, and computes nothing from it.
ZeroDivisionError ==
  [class |-> "ZeroDivisionError", sign |-> 0, mant |-> NoLimbs, exp |-> 0]

\* The quotient by a divisor d of one limb, limb by limb from the
\* highest: the limbs that are left to divide, the remainder r so far,
\* which is below d, and the limbs q of the quotient so far:
\* <<the limbs of the remainder, the limbs of the quotient, the lowest
\* first>>.
RECURSIVE QuotientByLimb(_, _, _, _)
QuotientByLimb(limbs, d, r, q) ==
  IF limbs = <<>> THEN <<Limbs(r), q>>
  ELSE QuotientByLimb(Tail(limbs), d,
                      (r * LimbBase + Head(limbs)) % d,
                      <<(r * LimbBase + Head(limbs)) \div d>> \o q)

\* The quotient of the limbs x times LimbBase by a divisor d of one limb
\* that is greater than x[4].
QuotientLimbs(x, d) ==
  QuotientByLimb(<<x[3], x[2], x[1], 0>>, d, x[4] % d, <<>>)

\* The float of the quotient q[2] * 2^e with the remainder q[1].
RoundQuotient(sign, q, e) == Round(sign, q[2], q[1] # NoLimbs, e)

\* a / b: 55 or 56 bits of the quotient of the significands, rounded.  A
\* divisor whose significand fits one limb is divided by limb by limb, any
\* other bit by bit.
DivideByLimb(sign, x, y) ==
  RoundQuotient(sign, QuotientLimbs(x.mant, y.mant[1]),
                x.exp - y.exp - LimbBits)
DivideByBits(sign, x, y) ==
  RoundQuotient(sign,
                QuotientByBits(QuotientBits(x.mant, y.mant, LimbBits, 0),
                               y.mant, 3, <<>>),
                x.exp - y.exp - 55)
FloatDiv(a, b) ==
  IF IsZero(b) THEN ZeroDivisionError
  ELSE IF IsNaN(a) \/ IsNaN(b) THEN NaN
  ELSE IF IsInfinite(a)
       THEN IF IsInfinite(b) THEN NaN ELSE Infinity(SignOf(a, b))
  ELSE IF IsInfinite(b) \/ IsZero(a) THEN FloatZero(SignOf(a, b))
  ELSE IF Bits(b.mant) <= LimbBits
  THEN DivideByLimb(SignOf(a, b), Normalised(a, Precision + 2),
                    Normalised(b, LimbBits))
  ELSE DivideByBits(SignOf(a, b), Normalised(a, Precision),
                    Normalised(b, Precision))

\* a == b, a < b and a <= b: False when a or b is nan, and 0.0 == -0.0.
FloatEq(a, b) ==
  ~IsNaN(a) /\ ~IsNaN(b) /\ (a = b \/ (IsZero(a) /\ IsZero(b)))

\* abs(a) < abs(b) for floats that are not nan: by the position of the
\* highest bit, then by the significands.
LtFromTop(a, top_a, b, top_b) ==
  IF top_a # top_b THEN top_a < top_b
  ELSE ~GeLimbs(Normalised(a, Precision).mant,
                Normalised(b, Precision).mant)
MagnitudeLt(a, b) ==
  IF IsInfinite(a) THEN FALSE
  ELSE IF IsInfinite(b) THEN TRUE
  ELSE IF IsZero(b) THEN FALSE
  ELSE IF IsZero(a) THEN TRUE
  ELSE LtFromTop(a, Bits(a.mant) + a.exp, b, Bits(b.mant) + b.exp)

FloatLt(a, b) ==
  IF IsNaN(a) \/ IsNaN(b) \/ FloatEq(a, b) THEN FALSE
  ELSE IF a.sign # b.sign THEN a.sign = 1
  ELSE IF a.sign = 0 THEN MagnitudeLt(a, b)
  ELSE MagnitudeLt(b, a)
FloatLe(a, b) == FloatLt(a, b) \/ FloatEq(a, b)

\* float(n) of an int, and the float literal n/d (0.05 is Float(5, 100)):
\* the float nearest to the number written.
FloatInt(n) == Pack(IF n < 0 THEN 1 ELSE 0, Limbs(Abs(n)), 0)
Float(n, d) == FloatDiv(FloatInt(n), FloatInt(d))

\* sum() over the values of a dict, in insertion order: 0 + v1 + v2 + ..,
\* every addition rounded.
RECURSIVE SumValues(_)
SumValues(d) ==
  IF d = <<>> THEN FloatInt(0)
  ELSE FloatAdd(SumValues(SubSeq(d, 1, Len(d) - 1)), d[Len(d)].v)

(***************************************************************************)
(* src/qfs/galactic_framework/federation_framework.py                      *)
(* (GalacticFederationFramework).  portals is a dict: a sequence of        *)
(* portals in insertion order, with distinct portal_id.  The coordinates   *)
(* of a portal are a dict like a transaction.                              *)
(***************************************************************************)
\* FEDERATION_STANDARDS.
minimum_abundance_level == FloatInt(1000)
portal_sync_frequency == FloatInt(432)
quantum_coherence_threshold == Float(9, 10)
dimensional_alignment_tolerance == Float(5, 100)

\* Inputs of the framework's methods.
PortalIds == {"p1", "p2"}
Dimensions == {"quantum", "galactic"}
Capacities == {FloatInt(5000), FloatInt(999)}
CoordinateInputs ==
  { <<>>,
    <<KV("dimensional_frequency", FloatInt(411))>>,
    <<KV("dimensional_frequency", FloatInt(410))>>,
    <<KV("dimensional_frequency", Float(4104, 10))>>,
    <<KV("x", FloatInt(0))>> }
DepositAmounts ==
  {Float(9, 10), Float(3, 10), Float(1, 10), FloatInt(0), Float(-1, 10), NaN}
DistributeAmounts ==
  {Float(9, 10), Float(3, 10), Float(2, 10), Float(1, 10), Float(-1, 10)}
RecipientInputs ==
  { <<>>, <<"c1">>, <<"c1", "c2">>, <<"c2", "c1">>, <<"c1", "c1">>,
    <<"c1", "c2", "c3">>, <<"c1", "c2", "c1">> }

\* The outcome of the latest call: the method, the exception it raised
\* ("" when it returned), and what it returned: ok is the bool of
\* activate_portal, active_portals the entry of the report of
\* synchronize_portals, allocation the dict of
\* distribute_galactic_abundance.
NoReturn ==
  [op |-> "", raised |-> "", ok |-> FALSE, active_portals |-> 0,
   synchronized_portals |-> 0, allocation |-> <<>>, portal_id |-> ""]

\* The framework after __init__.
FrameworkNew ==
  [constructed |-> TRUE,
   portals |-> <<>>,
   galactic_treasury_balance |-> FloatInt(0),
   balance_changes |-> 0,
   synchronized_dimensions |-> <<>>,
   ret |-> NoReturn]

\* The position of portal_id in portals, 0 if it is not there.
PortalAt(portals, portal_id) ==
  IF \E i \in DOMAIN portals : portals[i].portal_id = portal_id
  THEN CHOOSE i \in DOMAIN portals : portals[i].portal_id = portal_id
  ELSE 0

\* _verify_portal_alignment without the dimensional_frequency default.
verify_portal_alignment_NoDefault(portal) ==
  LET f == IF Has(portal.coordinates, "dimensional_frequency")
           THEN Get(portal.coordinates, "dimensional_frequency")
           ELSE portal_sync_frequency
  IN  FloatLe(FloatDiv(FloatAbs(FloatSub(f, portal_sync_frequency)),
                   portal_sync_frequency),
            dimensional_alignment_tolerance)

\* _verify_portal_alignment.
verify_portal_alignment(portal) ==
  LET f == IF Has(portal.coordinates, "dimensional_frequency")
           THEN Get(portal.coordinates, "dimensional_frequency")
           ELSE FloatInt(0)
  IN  FloatLe(FloatDiv(FloatAbs(FloatSub(f, portal_sync_frequency)),
                   portal_sync_frequency),
            dimensional_alignment_tolerance)

\* _calculate_portal_coherence: 0.5, with 0.3 more for the alignment and
\* 0.2 more for the capacity, and 1.0 at most.
base_coherence == Float(5, 10)
alignment_coherence == Float(3, 10)
capacity_coherence == Float(2, 10)
full_coherence == FloatInt(1)

calculate_portal_coherence(portal) ==
  LET aligned == IF verify_portal_alignment(portal)
                 THEN FloatAdd(base_coherence, alignment_coherence)
                 ELSE base_coherence
      full == IF FloatLe(minimum_abundance_level, portal.capacity)
              THEN FloatAdd(aligned, capacity_coherence) ELSE aligned
  IN  IF FloatLt(full_coherence, full) THEN full_coherence ELSE full

\* anchor_abundance_portal(portal_id, dimension, capacity, coordinates).
AnchorAbundancePortal(portal_id, dimension, capacity, coordinates) ==
  /\ framework.constructed
  /\ IF \/ PortalAt(framework.portals, portal_id) # 0
        \/ FloatLt(capacity, minimum_abundance_level)
     THEN framework' =
            [framework EXCEPT !.ret = [NoReturn EXCEPT
               !.op = "anchor_abundance_portal", !.raised = "ValueError"]]
     ELSE framework' =
            [framework EXCEPT
               !.portals = Append(@,
                 [portal_id |-> portal_id,
                  dimension |-> dimension,
                  capacity |-> capacity,
                  status |-> "anchoring",
                  coordinates |->
                    IF coordinates = <<>>
                    THEN <<KV("x", FloatInt(0)), KV("y", FloatInt(0)),
                           KV("z", FloatInt(0)),
                           KV("dimensional_frequency", portal_sync_frequency)>>
                    ELSE coordinates]),
               !.ret = [NoReturn EXCEPT !.op = "anchor_abundance_portal",
                                        !.portal_id = portal_id]]
  /\ UNCHANGED <<ledger, encryption, distributor, compliance>>

\* The synchronized_dimensions after activate_portal of a portal.
AddDimension(dims, dimension) ==
  IF \E i \in DOMAIN dims : dims[i] = dimension
  THEN dims ELSE Append(dims, dimension)

\* activate_portal(portal_id).
ActivatePortal(portal_id) ==
  /\ framework.constructed
  /\ LET i == PortalAt(framework.portals, portal_id) IN
     IF i = 0
     THEN framework' =
            [framework EXCEPT !.ret = [NoReturn EXCEPT
               !.op = "activate_portal", !.raised = "ValueError",
               !.portal_id = portal_id]]
     ELSE IF ~verify_portal_alignment(framework.portals[i])
     THEN framework' =
            [framework EXCEPT !.ret = [NoReturn EXCEPT
               !.op = "activate_portal", !.ok = FALSE,
               !.portal_id = portal_id]]
     ELSE framework' =
            [framework EXCEPT
               !.portals[i].status = "active",
               !.synchronized_dimensions =
                  AddDimension(@, framework.portals[i].dimension),
               !.ret = [NoReturn EXCEPT !.op = "activate_portal",
                                        !.ok = TRUE,
                                        !.portal_id = portal_id]]
  /\ UNCHANGED <<ledger, encryption, distributor, compliance>>

\* The number of portals with the given status.
CountStatus(portals, status) ==
  Cardinality({i \in DOMAIN portals : portals[i].status = status})

\* The portals after the status update of synchronize_portals.
SynchronizedPortals(portals) ==
  [i \in DOMAIN portals |->
     IF /\ portals[i].status = "active"
        /\ FloatLe(quantum_coherence_threshold,
                 calculate_portal_coherence(portals[i]))
     THEN [portals[i] EXCEPT !.status = "synchronized"]
     ELSE portals[i]]

\* synchronize_portals().
SynchronizePortals ==
  /\ framework.constructed
  /\ IF CountStatus(framework.portals, "active") = 0
     THEN framework' =
            [framework EXCEPT !.ret = [NoReturn EXCEPT
               !.op = "synchronize_portals", !.active_portals = 0]]
     ELSE framework' =
            [framework EXCEPT
               !.portals = SynchronizedPortals(@),
               !.ret = [NoReturn EXCEPT
                  !.op = "synchronize_portals",
                  !.active_portals = CountStatus(framework.portals, "active"),
                  !.synchronized_portals =
                     CountStatus(SynchronizedPortals(framework.portals),
                                 "synchronized")]]
  /\ UNCHANGED <<ledger, encryption, distributor, compliance>>

\* {recipient: share for recipient in recipients}: a key that comes again
\* overwrites its entry.
RECURSIVE Allocation(_, _)
Allocation(recipients, share) ==
  IF recipients = <<>> THEN <<>>
  ELSE SetItem(Allocation(SubSeq(recipients, 1, Len(recipients) - 1), share),
               recipients[Len(recipients)], share)

\* distribute_galactic_abundance(amount, recipients).
DistributeGalacticAbundance(amount, recipients) ==
  /\ framework.constructed
  /\ IF \/ FloatLt(framework.galactic_treasury_balance, amount)
        \/ recipients = <<>>
     THEN framework' =
            [framework EXCEPT !.ret = [NoReturn EXCEPT
               !.op = "distribute_galactic_abundance",
               !.raised = "ValueError"]]
     ELSE /\ framework.balance_changes < MaxTreasury
          /\ framework' =
               [framework EXCEPT
                  !.galactic_treasury_balance = FloatSub(@, amount),
                  !.balance_changes = @ + 1,
                  !.ret = [NoReturn EXCEPT
                     !.op = "distribute_galactic_abundance",
                     !.allocation =
                        Allocation(recipients,
                                   FloatDiv(amount, FloatInt(Len(recipients))))]]
  /\ UNCHANGED <<ledger, encryption, distributor, compliance>>

\* deposit_to_galactic_treasury(amount).
DepositToGalacticTreasury(amount) ==
  /\ framework.constructed
  /\ IF FloatLe(amount, FloatInt(0))
     THEN framework' =
            [framework EXCEPT !.ret = [NoReturn EXCEPT
               !.op = "deposit_to_galactic_treasury",
               !.raised = "ValueError"]]
     ELSE /\ framework.balance_changes < MaxTreasury
          /\ framework' =
               [framework EXCEPT
                  !.galactic_treasury_balance = FloatAdd(@, amount),
                  !.balance_changes = @ + 1,
                  !.ret = [NoReturn EXCEPT
                     !.op = "deposit_to_galactic_treasury"]]
  /\ UNCHANGED <<ledger, encryption, distributor, compliance>>

\* No ledger has been constructed.
NoLedger ==
  /\ chain = <<>>
  /\ pending_transactions = <<>>
  /\ difficulty = 0
  /\ raised = ""
  /\ calls = [th \in Threads |-> IdleCall]
  /\ accepted = NoneAccepted
  /\ objects = OwnDicts

InitFramework ==
  /\ NoLedger
  /\ encryption = Absent
  /\ distributor = Absent
  /\ compliance = Absent
  /\ framework = FrameworkNew

\* The calls on the portals of the framework.
NextPortals ==
  \/ \E portal_id \in PortalIds, dimension \in Dimensions,
        capacity \in Capacities, coordinates \in CoordinateInputs :
       AnchorAbundancePortal(portal_id, dimension, capacity, coordinates)
  \/ \E portal_id \in PortalIds : ActivatePortal(portal_id)
  \/ SynchronizePortals

SpecPortals == InitFramework /\ [][NextPortals]_vars

\* The calls on the treasury of the framework.
NextTreasury ==
  \/ \E amount \in DistributeAmounts, recipients \in RecipientInputs :
       DistributeGalacticAbundance(amount, recipients)
  \/ \E amount \in DepositAmounts : DepositToGalacticTreasury(amount)

SpecTreasury == InitFramework /\ [][NextTreasury]_vars

(***************************************************************************)
(* src/qfs/compliance/nesara_gesara.py (NESARAGESARACompliance).           *)
(* exemptions is a dict from entity ids to lists of rule ids: a sequence   *)
(* of [k, v] pairs in insertion order.  The transaction data is a dict     *)
(* like a transaction of the ledger, with booleans among its values.  The  *)
(* messages of the results are fixed texts and are left out.               *)
(***************************************************************************)
Bool(b) == [t |-> "bool", s |-> "", n |-> IF b THEN 1 ELSE 0]

\* bool(v) of Python.
Truthy(v) ==
  CASE v.t = "str" -> v.s # ""
    [] v.t = "none" -> FALSE
    [] OTHER -> v.n # 0

\* v can be compared with an int: it is a number or a bool.
Ordered(v) == v.t \in {"num", "bool"}

\* data.get(k, default).
GetOr(d, k, default) == IF Has(d, k) THEN Get(d, k) ELSE default

\* COMPLIANCE_RULES: the rule ids in order; every rule is required.
COMPLIANCE_RULES ==
  << [rule_id |-> "DEBT_ELIMINATION", required |-> TRUE],
     [rule_id |-> "WEALTH_REDISTRIBUTION", required |-> TRUE],
     [rule_id |-> "TRANSPARENCY", required |-> TRUE],
     [rule_id |-> "UNIVERSAL_PROSPERITY", required |-> TRUE],
     [rule_id |-> "SOVEREIGN_RIGHTS", required |-> TRUE],
     [rule_id |-> "QUANTUM_SECURITY", required |-> TRUE],
     [rule_id |-> "GALACTIC_ALIGNMENT", required |-> TRUE] >>

\* Inputs of the methods of the compliance engine.
Entities == {"e1", "e2"}
ExemptionRules == {"TRANSPARENCY", "UNIVERSAL_PROSPERITY"}
FullData(amount, type) ==
  <<KV("from", Str("alice")), KV("to", Str("bob")), KV("amount", amount),
    KV("type", Str(type))>>
ComplianceInputs ==
  { FullData(Num(100), "transfer"),
    FullData(Num(-5), "transfer"),
    FullData(Str("abc"), "debt_forgiveness"),
    <<KV("from", Str("alice")), KV("to", Str("bob")), KV("amount", Num(100)),
      KV("consent", Bool(FALSE))>>,
    Append(FullData(Num(100), "transfer"),
           KV("galactic_compliant", Bool(FALSE))) }

\* The result of a rule check: its status, or the exception the check
\* raised.
Result(status) == [status |-> status, raised |-> ""]
Raises(exception) == [status |-> "", raised |-> exception]

\* _check_debt_elimination: both branches give COMPLIANT; the amount is
\* compared with 0 unless the type is a debt relief.
check_debt_elimination(data) ==
  LET is_debt_relief ==
        GetOr(data, "type", None)
          \in {Str("debt_forgiveness"), Str("debt_elimination")}
  IN  IF ~is_debt_relief /\ ~Ordered(GetOr(data, "amount", Num(0)))
      THEN Raises("TypeError")
      ELSE Result("compliant")

\* _check_wealth_redistribution.
check_wealth_redistribution(data) ==
  IF Truthy(GetOr(data, "redistribution_enabled", Bool(TRUE)))
  THEN Result("compliant") ELSE Result("non_compliant")

\* _check_transparency.
check_transparency(data) ==
  IF {"from", "to", "amount", "type"} \subseteq Keys(data)
  THEN Result("compliant") ELSE Result("non_compliant")

\* _check_universal_prosperity: the amount is compared with 0.
check_universal_prosperity(data) ==
  IF ~Ordered(GetOr(data, "amount", Num(0)))
  THEN Raises("TypeError")
  ELSE Result("compliant")

\* _check_sovereign_rights.
check_sovereign_rights(data) ==
  IF Truthy(GetOr(data, "consent", Bool(TRUE)))
  THEN Result("compliant") ELSE Result("non_compliant")

\* _check_quantum_security.
check_quantum_security(data) ==
  IF Truthy(GetOr(data, "quantum_secure", Bool(TRUE)))
  THEN Result("compliant") ELSE Result("non_compliant")

\* _check_galactic_alignment.
check_galactic_alignment(data) ==
  IF Truthy(GetOr(data, "galactic_compliant", Bool(TRUE)))
  THEN Result("compliant") ELSE Result("pending_review")

\* _check_rule.
check_rule(rule, data) ==
  CASE rule.rule_id = "DEBT_ELIMINATION" -> check_debt_elimination(data)
    [] rule.rule_id = "WEALTH_REDISTRIBUTION" ->
         check_wealth_redistribution(data)
    [] rule.rule_id = "TRANSPARENCY" -> check_transparency(data)
    [] rule.rule_id = "UNIVERSAL_PROSPERITY" ->
         check_universal_prosperity(data)
    [] rule.rule_id = "SOVEREIGN_RIGHTS" -> check_sovereign_rights(data)
    [] rule.rule_id = "QUANTUM_SECURITY" -> check_quantum_security(data)
    [] rule.rule_id = "GALACTIC_ALIGNMENT" -> check_galactic_alignment(data)
    [] OTHER -> Result("pending_review")

\* _is_exempt.
is_exempt(exemptions, entity_id, rule_id) ==
  /\ Has(exemptions, entity_id)
  /\ \E i \in DOMAIN Get(exemptions, entity_id) :
       Get(exemptions, entity_id)[i] = rule_id

\* The locals of check_compliance before its loop.
LoopStart ==
  [overall_status |-> "compliant", violations |-> <<>>,
   compliance_results |-> <<>>, raised |-> ""]

\* One pass of the loop of check_compliance that lists a rule in
\* violations whenever its status is not COMPLIANT.
RuleStep_ListsPending(acc, exemptions, entity_id, rule, data) ==
  IF acc.raised # "" THEN acc
  ELSE IF is_exempt(exemptions, entity_id, rule.rule_id)
  THEN [acc EXCEPT !.compliance_results =
                      Append(@, KV(rule.rule_id, "exempt"))]
  ELSE LET rule_result == check_rule(rule, data) IN
       IF rule_result.raised # ""
       THEN [acc EXCEPT !.raised = rule_result.raised]
       ELSE [acc EXCEPT
               !.compliance_results =
                  Append(@, KV(rule.rule_id, rule_result.status)),
               !.overall_status =
                  IF rule_result.status = "non_compliant" /\ rule.required
                  THEN "non_compliant" ELSE @,
               !.violations =
                  IF rule_result.status # "compliant" /\ rule.required
                  THEN Append(@, rule.rule_id) ELSE @]

\* One pass of the loop of check_compliance, for one rule; a pass that
\* raises ends the loop.
RuleStep(acc, exemptions, entity_id, rule, data) ==
  IF acc.raised # "" THEN acc
  ELSE IF is_exempt(exemptions, entity_id, rule.rule_id)
  THEN [acc EXCEPT !.compliance_results =
                      Append(@, KV(rule.rule_id, "exempt"))]
  ELSE LET rule_result == check_rule(rule, data) IN
       IF rule_result.raised # ""
       THEN [acc EXCEPT !.raised = rule_result.raised]
       ELSE [acc EXCEPT
               !.compliance_results =
                  Append(@, KV(rule.rule_id, rule_result.status)),
               !.overall_status =
                  IF rule_result.status = "non_compliant" /\ rule.required
                  THEN "non_compliant" ELSE @,
               !.violations =
                  IF rule_result.status = "non_compliant" /\ rule.required
                  THEN Append(@, rule.rule_id) ELSE @]

\* The loop of check_compliance over the first n rules.
RECURSIVE RuleLoop(_, _, _, _)
RuleLoop(n, exemptions, entity_id, data) ==
  IF n = 0 THEN LoopStart
  ELSE RuleStep(RuleLoop(n - 1, exemptions, entity_id, data),
                exemptions, entity_id, COMPLIANCE_RULES[n], data)

\* The report of check_compliance, from the locals after the loop.
Report(acc, entity_id) ==
  [entity_id |-> entity_id,
   overall_status |-> acc.overall_status,
   rules_checked |-> Len(COMPLIANCE_RULES),
   violations |-> acc.violations,
   detailed_results |-> acc.compliance_results,
   compliant |-> acc.overall_status = "compliant"]

NoReport == Report(LoopStart, "")

\* The outcome of the latest call: the method, the exception it raised
\* ("" when it returned), and for check_compliance the entity and the data
\* it was called with and the report it returned.
Outcome(op, exception, entity_id, transaction_data, report) ==
  [op |-> op, raised |-> exception, entity_id |-> entity_id,
   transaction_data |-> transaction_data, report |-> report]

\* The compliance engine after __init__.
ComplianceNew ==
  [constructed |-> TRUE,
   compliance_records |-> <<>>,
   exemptions |-> <<>>,
   ret |-> Outcome("", "", "", <<>>, NoReport)]

\* check_compliance(entity_id, transaction_data).
CheckCompliance(entity_id, transaction_data) ==
  /\ compliance.constructed
  /\ LET acc == RuleLoop(Len(COMPLIANCE_RULES), compliance.exemptions,
                         entity_id, transaction_data)
     IN  IF acc.raised # ""
         THEN compliance' =
                [compliance EXCEPT !.ret =
                   Outcome("check_compliance", acc.raised, entity_id,
                           transaction_data, NoReport)]
         ELSE /\ Len(compliance.compliance_records) < MaxRecords
              /\ compliance' =
                   [compliance EXCEPT
                      !.compliance_records = Append(@, Report(acc, entity_id)),
                      !.ret = Outcome("check_compliance", "", entity_id,
                                      transaction_data,
                                      Report(acc, entity_id))]
  /\ UNCHANGED <<ledger, encryption, distributor, framework>>

\* list.remove(x): the list without the first of its elements equal to x.
RemoveFirst(seq, x) ==
  LET i == CHOOSE k \in DOMAIN seq :
             seq[k] = x /\ \A m \in 1 .. k - 1 : seq[m] # x
  IN  SubSeq(seq, 1, i - 1) \o SubSeq(seq, i + 1, Len(seq))

\* add_exemption that appends the rule whether or not it is listed.
add_exemption_AlwaysAppends(exemptions, entity_id, rule_id) ==
  LET listed == IF Has(exemptions, entity_id) THEN exemptions
                ELSE Append(exemptions, KV(entity_id, <<>>))
  IN  SetItem(listed, entity_id, Append(Get(listed, entity_id), rule_id))

\* add_exemption: the dict exemptions after the call.
add_exemption(exemptions, entity_id, rule_id) ==
  LET listed == IF Has(exemptions, entity_id) THEN exemptions
                ELSE Append(exemptions, KV(entity_id, <<>>))
      rules == Get(listed, entity_id)
  IN  IF \E i \in DOMAIN rules : rules[i] = rule_id
      THEN listed
      ELSE SetItem(listed, entity_id, Append(rules, rule_id))

\* remove_exemption: the dict exemptions after the call.
remove_exemption(exemptions, entity_id, rule_id) ==
  IF is_exempt(exemptions, entity_id, rule_id)
  THEN SetItem(exemptions, entity_id,
               RemoveFirst(Get(exemptions, entity_id), rule_id))
  ELSE exemptions

\* add_exemption(entity_id, rule_id).
AddExemption(entity_id, rule_id) ==
  /\ compliance.constructed
  /\ compliance' =
       [compliance EXCEPT
          !.exemptions = add_exemption(@, entity_id, rule_id),
          !.ret = Outcome("add_exemption", "", "", <<>>, NoReport)]
  /\ UNCHANGED <<ledger, encryption, distributor, framework>>

\* remove_exemption(entity_id, rule_id).
RemoveExemption(entity_id, rule_id) ==
  /\ compliance.constructed
  /\ compliance' =
       [compliance EXCEPT
          !.exemptions = remove_exemption(@, entity_id, rule_id),
          !.ret = Outcome("remove_exemption", "", "", <<>>, NoReport)]
  /\ UNCHANGED <<ledger, encryption, distributor, framework>>

InitCompliance ==
  /\ NoLedger
  /\ encryption = Absent
  /\ distributor = Absent
  /\ framework = Absent
  /\ compliance = ComplianceNew

NextCompliance ==
  \/ \E entity_id \in Entities, transaction_data \in ComplianceInputs :
       CheckCompliance(entity_id, transaction_data)
  \/ \E entity_id \in Entities, rule_id \in ExemptionRules :
       AddExemption(entity_id, rule_id)
  \/ \E entity_id \in Entities, rule_id \in ExemptionRules :
       RemoveExemption(entity_id, rule_id)

SpecCompliance == InitCompliance /\ [][NextCompliance]_vars

(***************************************************************************)
(* src/qfs/wealth_distribution/distribution_algorithm.py                   *)
(* (WealthDistributor).  An allocation is a dict from addresses to         *)
(* amounts: a sequence of [k, v] pairs in insertion order.                 *)
(***************************************************************************)
\* DistributionStrategy.
Strategies ==
  {"equal", "proportional", "need_based", "hybrid", "galactic_abundance"}

Participant(address, stake, need_score, contribution_score) ==
  [address |-> address, stake |-> stake, need_score |-> need_score,
   contribution_score |-> contribution_score]

\* Inputs of distribute: no strategy argument is "none".
StrategyInputs == Strategies \cup {"none"}
AmountInputs == {FloatInt(1000), FloatInt(0)}
ParticipantInputs ==
  { <<>>,
    <<Participant("p1", FloatInt(100), Float(1, 2), FloatInt(50)),
      Participant("p2", FloatInt(200), Float(4, 5), FloatInt(30))>>,
    <<Participant("p1", FloatInt(0), FloatInt(0), FloatInt(0)),
      Participant("p2", FloatInt(0), FloatInt(0), FloatInt(0))>>,
    <<Participant("p1", FloatInt(100), Float(1, 2), FloatInt(50)),
      Participant("p1", FloatInt(200), Float(4, 5), FloatInt(30))>>,
    <<Participant("p1", FloatInt(20), FloatInt(0), FloatInt(0)),
      Participant("p2", FloatInt(0), FloatInt(1), FloatInt(0)),
      Participant("p3", FloatInt(0), FloatInt(1), FloatInt(20))>>,
    <<Participant("p1", Float(1, 10), Float(1, 10), Float(2, 10)),
      Participant("p2", Float(-3, 10), Float(2, 10), FloatInt(0)),
      Participant("p3", FloatInt(0), Float(-3, 10), FloatInt(0))>> }

\* The dict built by storing values[i] under keys[i] for i = 1, 2, ..: a
\* key that comes again overwrites its entry.
RECURSIVE DictFrom(_, _)
DictFrom(keys, values) ==
  IF keys = <<>> THEN <<>>
  ELSE SetItem(DictFrom(SubSeq(keys, 1, Len(keys) - 1),
                        SubSeq(values, 1, Len(values) - 1)),
               keys[Len(keys)], values[Len(values)])

\* sum() of a list of numbers.
RECURSIVE SumSeq(_)
SumSeq(seq) ==
  IF seq = <<>> THEN FloatInt(0)
  ELSE FloatAdd(SumSeq(SubSeq(seq, 1, Len(seq) - 1)), seq[Len(seq)])

AddressesOf(participants) ==
  [i \in DOMAIN participants |-> participants[i].address]

\* _equal_distribution.
equal_distribution(total_amount, participants) ==
  LET amount_per_participant ==
        FloatDiv(total_amount, FloatInt(Len(participants)))
  IN  DictFrom(AddressesOf(participants),
               [i \in DOMAIN participants |-> amount_per_participant])

\* _proportional_distribution.
proportional_distribution(total_amount, participants) ==
  LET weight == [i \in DOMAIN participants |->
                   FloatAdd(participants[i].stake,
                          participants[i].contribution_score)]
      total_weight == SumSeq(weight)
  IN  IF FloatEq(total_weight, FloatInt(0))
      THEN equal_distribution(total_amount, participants)
      ELSE DictFrom(AddressesOf(participants),
                    [i \in DOMAIN participants |->
                       FloatMul(FloatDiv(weight[i], total_weight), total_amount)])

\* _need_based_distribution.
need_based_distribution(total_amount, participants) ==
  LET total_need ==
        SumSeq([i \in DOMAIN participants |-> participants[i].need_score])
  IN  IF FloatEq(total_need, FloatInt(0))
      THEN equal_distribution(total_amount, participants)
      ELSE DictFrom(AddressesOf(participants),
                    [i \in DOMAIN participants |->
                       FloatMul(FloatDiv(participants[i].need_score, total_need),
                              total_amount)])

\* _hybrid_distribution: 0.4 of the proportional share, 0.4 of the
\* need-based share and 0.2 of the equal share.
hybrid_proportional == Float(4, 10)
hybrid_need_based == Float(4, 10)
hybrid_equal == Float(2, 10)
no_share == FloatInt(0)

hybrid_distribution(total_amount, participants) ==
  LET proportional == proportional_distribution(total_amount, participants)
      need_based == need_based_distribution(total_amount, participants)
      equal == equal_distribution(total_amount, participants)
  IN  DictFrom(AddressesOf(participants),
               [i \in DOMAIN participants |->
                  LET addr == participants[i].address IN
                  FloatAdd(FloatAdd(
                    FloatMul(hybrid_proportional,
                             GetOr(proportional, addr, no_share)),
                    FloatMul(hybrid_need_based,
                             GetOr(need_based, addr, no_share))),
                    FloatMul(hybrid_equal, GetOr(equal, addr, no_share)))])

\* _galactic_abundance_distribution: 0.6 of the amount in equal shares
\* and 0.4 of it in proportional shares.
base_part == Float(6, 10)
merit_part == Float(4, 10)

galactic_abundance_distribution(total_amount, participants) ==
  LET base_allocation ==
        equal_distribution(FloatMul(total_amount, base_part), participants)
      merit_allocation ==
        proportional_distribution(FloatMul(total_amount, merit_part),
                                  participants)
  IN  DictFrom(AddressesOf(participants),
               [i \in DOMAIN participants |->
                  LET addr == participants[i].address IN
                  FloatAdd(GetOr(base_allocation, addr, no_share),
                         GetOr(merit_allocation, addr, no_share))])

\* The allocation distribute computes for the strategy.
AllocationFor(distribution_strategy, total_amount, participants) ==
  CASE distribution_strategy = "equal" ->
         equal_distribution(total_amount, participants)
    [] distribution_strategy = "proportional" ->
         proportional_distribution(total_amount, participants)
    [] distribution_strategy = "need_based" ->
         need_based_distribution(total_amount, participants)
    [] distribution_strategy = "hybrid" ->
         hybrid_distribution(total_amount, participants)
    [] distribution_strategy = "galactic_abundance" ->
         galactic_abundance_distribution(total_amount, participants)

\* The distributor after __init__(strategy).
DistributorNew(strategy) ==
  [constructed |-> TRUE,
   strategy |-> strategy,
   distribution_history |-> <<>>,
   total_distributed |-> FloatInt(0),
   ret |-> [op |-> "", raised |-> "", allocation |-> <<>>]]

\* distribute(total_amount, participants, strategy), with
\* _record_distribution.
Distribute(total_amount, participants, strategy) ==
  /\ distributor.constructed
  /\ IF participants = <<>> \/ FloatLe(total_amount, FloatInt(0))
     THEN distributor' =
            [distributor EXCEPT !.ret =
               [op |-> "distribute", raised |-> "ValueError",
                allocation |-> <<>>]]
     ELSE LET distribution_strategy ==
                IF strategy = "none" THEN distributor.strategy ELSE strategy
              allocation == AllocationFor(distribution_strategy, total_amount,
                                          participants)
          IN  /\ Len(distributor.distribution_history) < MaxDistributions
              /\ distributor' =
                   [distributor EXCEPT
                      !.distribution_history =
                         Append(@, [total_amount |-> total_amount,
                                    allocation |-> allocation,
                                    strategy |-> distribution_strategy,
                                    participants_count |-> Len(allocation)]),
                      !.total_distributed = FloatAdd(@, total_amount),
                      !.ret = [op |-> "distribute", raised |-> "",
                               allocation |-> allocation]]
  /\ UNCHANGED <<ledger, encryption, compliance, framework>>

InitDistributor ==
  /\ NoLedger
  /\ encryption = Absent
  /\ compliance = Absent
  /\ framework = Absent
  /\ \E strategy \in Strategies : distributor = DistributorNew(strategy)

NextDistributor ==
  \E total_amount \in AmountInputs, participants \in ParticipantInputs,
     strategy \in StrategyInputs :
    Distribute(total_amount, participants, strategy)

SpecDistributor == InitDistributor /\ [][NextDistributor]_vars

(***************************************************************************)
(* src/qfs/encryption/rose_gold_encryption.py (RoseGoldEncryption).        *)
(* A str is a sequence of code points and a bytes object a sequence of     *)
(* numbers in 0 .. 255.  A character of a ciphertext is a number: 0 .. 63  *)
(* for the characters of the base64 alphabet, in the order of their        *)
(* values, PadChar for '=', OtherChar for a character outside the alphabet *)
(* and SurrogateChar for a lone surrogate, which UTF-8 cannot encode.      *)
(*                                                                         *)
(* hashlib.sha3_256(..).digest() is modelled as DigestLen bytes: a state   *)
(* of DigestLen / 2 lanes of 15 bits absorbs the input byte by byte, each  *)
(* lane mixing in the byte and its neighbouring lane and cubing the result *)
(* modulo its own prime, and every lane gives two bytes of the digest.     *)
(* The 32 of decrypt, the length of a digest, is DigestLen here: the       *)
(* digest has 60 bits where SHA3-256 has 256, and like SHA3-256 it has no  *)
(* collision that the calls below, or a search of short inputs, meet.      *)
(* secrets.token_bytes(32) gives KeyLength bytes that no call before it    *)
(* gave: the object counts its calls (drawn), and the call with the number *)
(* draw gives token_bytes(KeyLength, draw, seed) for any seed of           *)
(* RandomSeeds(draw), bytes that differ for every draw and seed.           *)
(* MaxRandomKeys bounds the number of these calls in a run.                *)
(***************************************************************************)
DigestLen == 8

\* length: int = 32 of _generate_master_key.
KeyLength == 32

\* The longest ciphertext of the plaintexts below, and the longest tail the
\* caller overwrites or cuts off.
MaxCiphertextLen == 24
TailLen == 5
PadChar == 64
OtherChar == 65
SurrogateChar == 66

\* str.encode('utf-8') of one code point; <<>> for a surrogate, which
\* cannot be encoded.
EncodeCodePoint(c) ==
  IF c < 128 THEN <<c>>
  ELSE IF c < 2048 THEN <<192 + c \div 64, 128 + (c % 64)>>
  ELSE IF c >= 55296 /\ c <= 57343 THEN <<>>
  ELSE IF c < 65536
  THEN <<224 + c \div 4096, 128 + ((c \div 64) % 64), 128 + (c % 64)>>
  ELSE <<240 + c \div 262144, 128 + ((c \div 4096) % 64),
         128 + ((c \div 64) % 64), 128 + (c % 64)>>

\* str.encode('utf-8') raises UnicodeEncodeError unless this holds.
Encodable(text) == \A i \in DOMAIN text : EncodeCodePoint(text[i]) # <<>>

RECURSIVE Utf8Encode(_)
Utf8Encode(text) ==
  IF text = <<>> THEN <<>>
  ELSE EncodeCodePoint(Head(text)) \o Utf8Encode(Tail(text))

\* b is a continuation byte of UTF-8.
Continuation(b) == b >= 128 /\ b <= 191

\* bytes.decode('utf-8') from position i on, text being the code points
\* decoded so far: the text, or the exception raised.
RECURSIVE Utf8DecodeFrom(_, _, _)
Utf8DecodeFrom(data, i, text) ==
  LET n == Len(data)
      b0 == data[i]
      Cont(k) == i + k <= n /\ Continuation(data[i + k])
      Low(k) == data[i + k] - 128
      Bad == [raised |-> "UnicodeDecodeError", text |-> <<>>]
  IN  IF i > n THEN [raised |-> "", text |-> text]
      ELSE IF b0 < 128 THEN Utf8DecodeFrom(data, i + 1, Append(text, b0))
      ELSE IF b0 >= 194 /\ b0 <= 223
      THEN IF Cont(1)
           THEN Utf8DecodeFrom(data, i + 2,
                               Append(text, (b0 - 192) * 64 + Low(1)))
           ELSE Bad
      ELSE IF b0 >= 224 /\ b0 <= 239
      THEN IF /\ Cont(1) /\ Cont(2)
              /\ (b0 = 224 => data[i + 1] >= 160)
              /\ (b0 = 237 => data[i + 1] <= 159)
           THEN Utf8DecodeFrom(data, i + 3,
                  Append(text, (b0 - 224) * 4096 + Low(1) * 64 + Low(2)))
           ELSE Bad
      ELSE IF b0 >= 240 /\ b0 <= 244
      THEN IF /\ Cont(1) /\ Cont(2) /\ Cont(3)
              /\ (b0 = 240 => data[i + 1] >= 144)
              /\ (b0 = 244 => data[i + 1] <= 143)
           THEN Utf8DecodeFrom(data, i + 4,
                  Append(text, (b0 - 240) * 262144 + Low(1) * 4096
                                 + Low(2) * 64 + Low(3)))
           ELSE Bad
      ELSE Bad

Utf8Decode(data) == Utf8DecodeFrom(data, 1, <<>>)

\* base64.b64encode, three bytes at a time.
RECURSIVE b64encode(_)
b64encode(data) ==
  IF data = <<>> THEN <<>>
  ELSE IF Len(data) = 1
  THEN <<data[1] \div 4, (data[1] % 4) * 16, PadChar, PadChar>>
  ELSE IF Len(data) = 2
  THEN <<data[1] \div 4, (data[1] % 4) * 16 + data[2] \div 16,
         (data[2] % 16) * 4, PadChar>>
  ELSE <<data[1] \div 4, (data[1] % 4) * 16 + data[2] \div 16,
         (data[2] % 16) * 4 + data[3] \div 64, data[3] % 64>>
       \o b64encode(SubSeq(data, 4, Len(data)))

\* The loop of binascii.a2b_base64 (not strict) from character i on.  st
\* is its state: the position in the group of four, the padding characters
\* seen in a row, the bits left over, and the bytes written.  A padding
\* that completes a group ends the loop; characters outside the alphabet
\* are skipped.
RECURSIVE a2b_loop(_, _, _)
a2b_loop(chars, i, st) ==
  IF i > Len(chars) THEN st
  ELSE LET ch == chars[i] IN
       IF ch = PadChar
       THEN IF st.quad_pos >= 2 /\ st.quad_pos + st.pads + 1 >= 4
            THEN [st EXCEPT !.quad_pos = 0]
            ELSE a2b_loop(chars, i + 1, [st EXCEPT !.pads = @ + 1])
       ELSE IF ch > PadChar THEN a2b_loop(chars, i + 1, st)
       ELSE a2b_loop(chars, i + 1,
              CASE st.quad_pos = 0 ->
                     [st EXCEPT !.quad_pos = 1, !.pads = 0, !.leftchar = ch]
                [] st.quad_pos = 1 ->
                     [st EXCEPT !.quad_pos = 2, !.pads = 0,
                                !.out = Append(@, st.leftchar * 4
                                                    + ch \div 16),
                                !.leftchar = ch % 16]
                [] st.quad_pos = 2 ->
                     [st EXCEPT !.quad_pos = 3, !.pads = 0,
                                !.out = Append(@, st.leftchar * 16
                                                    + ch \div 4),
                                !.leftchar = ch % 4]
                [] st.quad_pos = 3 ->
                     [st EXCEPT !.quad_pos = 0, !.pads = 0,
                                !.out = Append(@, st.leftchar * 64 + ch),
                                !.leftchar = 0])

\* base64.b64decode(ciphertext.encode('utf-8')): the bytes, or the
\* exception raised.
b64decode(chars) ==
  IF \E i \in DOMAIN chars : chars[i] = SurrogateChar
  THEN [raised |-> "UnicodeEncodeError", data |-> <<>>]
  ELSE LET st == a2b_loop(chars, 1,
                          [quad_pos |-> 0, pads |-> 0, leftchar |-> 0,
                           out |-> <<>>])
       IN  IF st.quad_pos # 0
           THEN [raised |-> "binascii.Error", data |-> <<>>]
           ELSE [raised |-> "", data |-> st.out]

\* The prime of each lane of the state of the digest (each is 2 modulo 3,
\* so that cubing is one to one, and its square is a 31-bit number) and the
\* multiplier of each lane.
LanePrimes == <<46337, 46307, 46301, 46271>>
LaneMultipliers == <<263, 269, 271, 277>>

\* x * x * x modulo p.
Cube(x, p) == (((x * x) % p) * x) % p

\* Lane j of the state after one more byte of the input.
AbsorbLane(state, byte, j) ==
  Cube((state[j] * LaneMultipliers[j]
          + state[IF j = 1 THEN Len(state) ELSE j - 1] + byte + 1)
         % LanePrimes[j],
       LanePrimes[j])

\* The state after one more byte of the input.
AbsorbByte(state, byte) ==
  <<AbsorbLane(state, byte, 1), AbsorbLane(state, byte, 2),
    AbsorbLane(state, byte, 3), AbsorbLane(state, byte, 4)>>

\* The state after the bytes of data, one after the other: the first half
\* of them, then the second.  The test of the state makes the state after
\* the first half a value before the second half is absorbed.
RECURSIVE AbsorbInto(_, _)
AbsorbInto(state, data) ==
  IF state = <<>> \/ data = <<>> THEN state
  ELSE IF Len(data) = 1 THEN AbsorbByte(state, data[1])
  ELSE AbsorbInto(AbsorbInto(state, SubSeq(data, 1, Len(data) \div 2)),
                  SubSeq(data, Len(data) \div 2 + 1, Len(data)))

\* The state after the bytes of data.
Absorb(data) == AbsorbInto(<<1, 2, 3, 4>>, data)

\* hashlib.sha3_256(data).digest().
sha3_digest(data) ==
  LET state == Absorb(data)
  IN  [i \in 1 .. DigestLen |->
         IF i % 2 = 1 THEN state[(i + 1) \div 2] \div 256
         ELSE state[i \div 2] % 256]

\* a ^ b on numbers of the given number of bits.
RECURSIVE Xor(_, _, _)
Xor(a, b, bits) ==
  IF bits = 0 THEN 0
  ELSE ((a + b) % 2) + 2 * Xor(a \div 2, b \div 2, bits - 1)

\* The bytes of 'layer1', 'layer2' and 'layer3' for layer = 1, 2, 3.
LayerLabel(layer) == <<108, 97, 121, 101, 114, 48 + layer>>

\* The keys __init__ and rotate_keys derive from the master key.
LayerKey(master_key, layer) == sha3_digest(master_key \o LayerLabel(layer))

\* key[i % key_len] for the byte at position i, counted from 1 here.
KeyByte(key, i) == key[((i - 1) % Len(key)) + 1]

\* _layer1_encrypt.
layer1_encrypt(layer1_key, data) ==
  [i \in 1 .. Len(data) |-> Xor(data[i], KeyByte(layer1_key, i), 8)]

\* _layer1_decrypt.
layer1_decrypt(layer1_key, data) ==
  [i \in 1 .. Len(data) |-> Xor(data[i], KeyByte(layer1_key, i), 8)]

\* _layer2_encrypt.
layer2_encrypt(layer2_key, data) ==
  [i \in 1 .. Len(data) |-> (data[i] + KeyByte(layer2_key, i)) % 256]

\* _layer2_decrypt that adds the key again.
layer2_decrypt_Adds(layer2_key, data) ==
  [i \in 1 .. Len(data) |-> (data[i] + KeyByte(layer2_key, i)) % 256]

\* _layer2_decrypt.
layer2_decrypt(layer2_key, data) ==
  [i \in 1 .. Len(data) |-> (data[i] - KeyByte(layer2_key, i)) % 256]

\* _layer3_sign.
layer3_sign(layer3_key, data) == sha3_digest(data \o layer3_key)

\* _layer3_verify that accepts every signature.
layer3_verify_AcceptsAll(layer3_key, data, signature) == TRUE

\* _layer3_verify.
layer3_verify(layer3_key, data, signature) ==
  layer3_sign(layer3_key, data) = signature

\* encrypt(plaintext) under the keys of e: the ciphertext, or the
\* exception raised.
encrypt(e, plaintext) ==
  IF ~Encodable(plaintext)
  THEN [raised |-> "UnicodeEncodeError", ciphertext |-> <<>>]
  ELSE LET data == Utf8Encode(plaintext)
           encrypted == layer2_encrypt(e.layer2_key,
                                       layer1_encrypt(e.layer1_key, data))
           signature == layer3_sign(e.layer3_key, encrypted)
       IN  [raised |-> "", ciphertext |-> b64encode(encrypted \o signature)]

\* What decrypt returns: (None, False) or (plaintext, True).
NoneFalse == [is_none |-> TRUE, plaintext |-> <<>>, verified |-> FALSE]
Verified(plaintext) ==
  [is_none |-> FALSE, plaintext |-> plaintext, verified |-> TRUE]

\* combined[:-32] and combined[-32:].
EncryptedPart(combined) ==
  SubSeq(combined, 1, Len(combined) - DigestLen)
SignaturePart(combined) ==
  SubSeq(combined,
         IF Len(combined) > DigestLen THEN Len(combined) - DigestLen + 1
         ELSE 1,
         Len(combined))

\* decrypt(ciphertext) under the keys of e: every exception raised in its
\* body is caught and gives (None, False).
decrypt(e, ciphertext) ==
  LET decoded == b64decode(ciphertext)
      encrypted == EncryptedPart(decoded.data)
      signature == SignaturePart(decoded.data)
      decrypted == layer1_decrypt(e.layer1_key,
                                  layer2_decrypt(e.layer2_key, encrypted))
      text == Utf8Decode(decrypted)
  IN  IF decoded.raised # "" THEN NoneFalse
      ELSE IF ~layer3_verify(e.layer3_key, encrypted, signature)
      THEN NoneFalse
      ELSE IF text.raised # "" THEN NoneFalse
      ELSE Verified(text.text)

\* Inputs.  A master key and a plaintext are strings; the master key ''
\* and no master key make the object draw a random key, and a master key
\* with a lone surrogate cannot be encoded.
MasterKeyInputs == {<<>>, <<107>>, <<55296>>}
Plaintexts ==
  { <<>>, <<233, 8364>>, <<72, 105, 33, 72, 105, 33, 72, 105, 33>>, <<55296>> }
TailChars == {49, PadChar}
AppendedChars == {OtherChar, SurrogateChar}

\* The outcomes of the call of secrets.token_bytes with the number draw,
\* one for every seed.  The last byte of a signature depends on the key,
\* and with it whether decrypt accepts the character 'x' in place of the
\* last character before the padding, for every plaintext on its own: of
\* the three plaintexts above that UTF-8 can encode, a key accepts it for
\* none, for any one, for any two or for all three.  The seeds of a draw
\* give one key of each of these eight kinds (EveryPaddingOutcome): in
\* the order of the seeds, for none, for the third plaintext, for the
\* second, for both, and the same four with the first, the empty one.
RandomSeeds(draw) ==
  << {0, 28, 2, 15, 10, 559, 65, 630},
     {0, 10, 6, 130, 29, 137, 33, 643},
     {0, 17, 2, 46, 13, 466, 72, 1503},
     {1, 5, 0, 11, 54, 550, 21, 234} >>[draw]

\* The ciphertext the caller holds: the latest ciphertext encrypt returned
\* (issued), the plaintext it was made from, whether the keys were rotated
\* since, and the number of random keys the object had drawn when it was
\* made.
NothingHeld ==
  [issued |-> FALSE, plaintext |-> <<>>, ciphertext |-> <<>>,
   rotated |-> FALSE, drawn |-> 0]

\* The outcome of the latest call: the method, the exception it raised
\* ("" when it returned), the plaintext given to encrypt, the ciphertext
\* given to decrypt, what decrypt returned, the master key given to
\* __init__ or rotate_keys and the hash rotate_keys returned.
Returned(op, exception, plaintext, ciphertext, result) ==
  [op |-> op, raised |-> exception, plaintext |-> plaintext,
   ciphertext |-> ciphertext, result |-> result, master_key |-> <<>>,
   hash |-> <<>>]

NoOutcome == Returned("", "", <<>>, <<>>, NoneFalse)

\* The first blocks of the random bytes of a draw for one seed of the
\* generator, DigestLen bytes each: the digests of the draw, the seed and
\* the number of the block.
RECURSIVE RandomBlocks(_, _, _)
RandomBlocks(blocks, draw, seed) ==
  IF blocks = 0 THEN <<>>
  ELSE RandomBlocks(blocks - 1, draw, seed)
         \o sha3_digest(<<draw, seed \div 256, seed % 256, blocks - 1>>)

\* secrets.token_bytes(length) at the call with the number draw, for one
\* seed of the generator.
token_bytes(length, draw, seed) ==
  SubSeq(RandomBlocks((length + DigestLen - 1) \div DigestLen, draw, seed),
         1, length)

\* The keys _generate_master_key can return at the call with the number
\* draw: none of them is a key of another call.
RandomKeys(draw) ==
  {token_bytes(KeyLength, draw, seed) : seed \in RandomSeeds(draw)}

\* What __init__ and rotate_keys get as master key bytes for the argument
\* given, when the object has drawn random keys drawn times before: for
\* None and '' the bytes _generate_master_key draws, otherwise
\* master_key.encode(), which raises UnicodeEncodeError for a lone
\* surrogate.
MasterKeys(master_key, drawn) ==
  IF master_key = <<>>
  THEN {[raised |-> "", key |-> key, drawn |-> drawn + 1] :
          key \in RandomKeys(drawn + 1)}
  ELSE IF ~Encodable(master_key)
  THEN {[raised |-> "UnicodeEncodeError", key |-> <<>>, drawn |-> drawn]}
  ELSE {[raised |-> "", key |-> Utf8Encode(master_key), drawn |-> drawn]}

\* The hexadecimal digits of a digest, 0 .. 15 for '0' .. 'f'.
hexdigest(digest) ==
  [i \in 1 .. 2 * Len(digest) |->
     IF i % 2 = 1 THEN digest[(i + 1) \div 2] \div 16
     ELSE digest[i \div 2] % 16]

\* get_master_key_hash: the digest of the master key in hexadecimal
\* digits.
get_master_key_hash(e) == hexdigest(sha3_digest(e.master_key))

\* All the master keys an object can have in a run.
AllRandomKeys == UNION {RandomKeys(draw) : draw \in 1 .. MaxRandomKeys}
GivenKeys ==
  {Utf8Encode(master_key) :
     master_key \in {k \in MasterKeyInputs : k # <<>> /\ Encodable(k)}}

\* The attributes __init__ and rotate_keys set.
WithKeys(e, key) ==
  [e EXCEPT !.master_key = key,
            !.layer1_key = LayerKey(key, 1),
            !.layer2_key = LayerKey(key, 2),
            !.layer3_key = LayerKey(key, 3)]

\* The object before __init__ has set an attribute.
Unconstructed ==
  [constructed |-> FALSE, master_key |-> <<>>, layer1_key |-> <<>>,
   layer2_key |-> <<>>, layer3_key |-> <<>>, drawn |-> 0,
   held |-> NothingHeld, ret |-> NoOutcome]

\* RoseGoldEncryption(master_key) with the master key bytes of given: the
\* object, or no object when master_key.encode() has raised.
EncryptionNew(master_key, given) ==
  IF given.raised # ""
  THEN [Unconstructed EXCEPT
          !.ret = [Returned("__init__", given.raised, <<>>, <<>>, NoneFalse)
                     EXCEPT !.master_key = master_key]]
  ELSE [WithKeys(Unconstructed, given.key) EXCEPT
          !.constructed = TRUE,
          !.drawn = given.drawn,
          !.ret = [Returned("__init__", "", <<>>, <<>>, NoneFalse)
                     EXCEPT !.master_key = master_key]]

\* The object after rotate_keys(new_master_key) with the master key bytes
\* of given.  When new_master_key.encode() raises, no attribute has been
\* set; otherwise the keys are new and the hash of the master key is
\* returned.
Rotated(e, new_master_key, given) ==
  IF given.raised # ""
  THEN [e EXCEPT
          !.ret = [Returned("rotate_keys", given.raised, <<>>, <<>>,
                            NoneFalse)
                     EXCEPT !.master_key = new_master_key]]
  ELSE [WithKeys(e, given.key) EXCEPT
          !.drawn = given.drawn,
          !.held.rotated = TRUE,
          !.ret = [Returned("rotate_keys", "", <<>>, <<>>, NoneFalse)
                     EXCEPT !.master_key = new_master_key,
                            !.hash = get_master_key_hash(
                                       [master_key |-> given.key])]]

\* encrypt(plaintext); the caller keeps the ciphertext.
Encrypt(plaintext) ==
  /\ encryption.constructed
  /\ LET out == encrypt(encryption, plaintext) IN
     encryption' =
       IF out.raised # ""
       THEN [encryption EXCEPT
               !.ret = Returned("encrypt", out.raised, plaintext, <<>>,
                                NoneFalse)]
       ELSE [encryption EXCEPT
               !.held = [issued |-> TRUE, plaintext |-> plaintext,
                         ciphertext |-> out.ciphertext, rotated |-> FALSE,
                         drawn |-> encryption.drawn],
               !.ret = Returned("encrypt", "", plaintext, <<>>,
                                NoneFalse)]
  /\ UNCHANGED <<ledger, distributor, compliance, framework>>

\* decrypt(ciphertext).
Decrypt(ciphertext) ==
  /\ encryption.constructed
  /\ encryption' =
       [encryption EXCEPT
          !.ret = Returned("decrypt", "", <<>>, ciphertext,
                           decrypt(encryption, ciphertext))]
  /\ UNCHANGED <<ledger, distributor, compliance, framework>>

\* rotate_keys(new_master_key).  A run draws at most MaxRandomKeys random
\* keys.
RotateKeys(new_master_key) ==
  /\ encryption.constructed
  /\ new_master_key = <<>> => encryption.drawn < MaxRandomKeys
  /\ \E given \in MasterKeys(new_master_key, encryption.drawn) :
       encryption' = Rotated(encryption, new_master_key, given)
  /\ UNCHANGED <<ledger, distributor, compliance, framework>>

\* The ciphertexts a caller makes from one that encrypt returned.  A
\* character that differs from ch: the one after it in the base64
\* alphabet, 'A' after '/' and 'B' for '='.
NextChar(ch) == (ch + 1) % 64

\* One character replaced, by the character after it or by '=': one of the
\* first two, which encode encrypted bytes unless the plaintext is empty,
\* or one of the last four, which encode bytes of the signature or are
\* padding.
TamperedByReplacing(ciphertext) ==
  UNION {{[ciphertext EXCEPT ![i] = NextChar(ciphertext[i])],
          [ciphertext EXCEPT ![i] = PadChar]} :
           i \in {k \in 1 .. MaxCiphertextLen :
                    /\ k \in DOMAIN ciphertext
                    /\ k <= 2 \/ k > Len(ciphertext) - 4}}

\* The character 'x' in place of the last character before the padding.
\* Of that character base64 uses the first bits only, two or four of
\* them, and the 'x' differs from it in the others.
LastBeforePadding(ciphertext) ==
  CHOOSE k \in DOMAIN ciphertext :
    /\ ciphertext[k] # PadChar
    /\ \A later \in k + 1 .. Len(ciphertext) : ciphertext[later] = PadChar

PaddingEdited(ciphertext) ==
  [ciphertext EXCEPT ![LastBeforePadding(ciphertext)] = 49]

\* The last k characters overwritten with ch, as the test of the integrity
\* check does with 10 characters 'x'.
TamperedTail(ciphertext, k, ch) ==
  [i \in DOMAIN ciphertext |->
     IF i > Len(ciphertext) - k THEN ch ELSE ciphertext[i]]

\* The last k characters cut off.
TamperedByCutting(ciphertext, k) ==
  SubSeq(ciphertext, 1, Len(ciphertext) - k)

\* All of them: the ones above, and a character appended.
Tampered(ciphertext) ==
  ( TamperedByReplacing(ciphertext)
      \cup {PaddingEdited(ciphertext)}
      \cup {TamperedTail(ciphertext, TailLen, ch) : ch \in TailChars}
      \cup {TamperedByCutting(ciphertext, k) : k \in 1 .. 2}
      \cup {Append(ciphertext, ch) : ch \in AppendedChars} )
    \ {ciphertext}

\* The ciphertexts the caller gives to decrypt: the empty one before
\* encrypt has returned one; the one it holds; and, as long as the keys
\* it was made with are in use, the ones it makes from it.
CallerCiphertexts(e) ==
  IF ~e.held.issued THEN {<<>>}
  ELSE IF e.held.rotated THEN {e.held.ciphertext}
  ELSE {e.held.ciphertext} \cup Tampered(e.held.ciphertext)

InitEncryption ==
  /\ NoLedger
  /\ distributor = Absent
  /\ compliance = Absent
  /\ framework = Absent
  /\ \E master_key \in MasterKeyInputs :
       \E given \in MasterKeys(master_key, 0) :
         encryption = EncryptionNew(master_key, given)

NextEncryption ==
  \/ \E plaintext \in Plaintexts : Encrypt(plaintext)
  \/ \E ciphertext \in CallerCiphertexts(encryption) : Decrypt(ciphertext)
  \/ \E new_master_key \in MasterKeyInputs : RotateKeys(new_master_key)

SpecEncryption == InitEncryption /\ [][NextEncryption]_vars

(***************************************************************************)
(* Properties.                                                             *)
(***************************************************************************)
\* Python counts the blocks from 0: chain[i] of the source is chain[i + 1]
\* here.
\*
\* C1: in every reachable state every block after the first holds the hash
\* of the block before it as previous_hash, and its index is its position
\* in the chain.
C1_Linked ==
  \A i \in 2 .. Len(chain) :
    /\ chain[i].previous_hash = chain[i - 1].hash
    /\ chain[i].index = i - 1

\* Two blocks mined on top of the genesis block.
C1_Witness == Len(chain) >= 3

\* C2: in every reachable state every block of the chain, the genesis
\* block included, has a hash with `difficulty` leading zeros that equals
\* the hash recomputed from its stored fields.  The block that
\* mine_pending_transactions returns is the block it appended.
C2_MinedAndConsistent ==
  \A i \in 1 .. Len(chain) :
    /\ Len(chain[i].hash.hex) = HashLen
    /\ \A k \in 1 .. difficulty : chain[i].hash.hex[k] = 0
    /\ chain[i].hash = calculate_hash(chain[i])

\* A block mined at the largest difficulty whose search had to iterate.
C2_Witness ==
  /\ difficulty = HashLen
  /\ Len(chain) >= 2
  /\ chain[2].nonce > 0
  /\ chain[1].nonce > 0

\* C3: is_chain_valid() returns True in every state the public operations
\* reach.
C3_AlwaysValid == is_chain_valid(chain, difficulty) = TRUE

\* A chain with two mined blocks, one of them holding caller transactions,
\* at a difficulty above zero.
C3_Witness ==
  /\ Len(chain) >= 3
  /\ difficulty > 0
  /\ Len(chain[3].transactions) >= 2

\* Equality of two lists of dicts in Python.
TxsEq(a, b) == Len(a) = Len(b) /\ \A j \in DOMAIN a : DictEq(a[j], b[j])

\* Transaction t with its amount replaced.
SetAmount(t, v) ==
  [j \in DOMAIN t |-> IF t[j].k = "amount" THEN KV("amount", v) ELSE t[j]]

\* Values a tamperer may write over the fields of a block.
TamperedIndexes == 0 .. Len(chain) + 1
TamperedTimestamps == Times \cup {2}
TamperedNonces(b) == {0, 1, b.nonce + 1, b.nonce + Modulus}
TamperedHashes(b) ==
  {ZeroHash, [hex |-> [k \in 1 .. HashLen |-> 0], rest |-> <<>>],
   [hex |-> b.hash.hex, rest |-> <<>>]}
    \cup {chain[j].hash : j \in DOMAIN chain}
    \cup {chain[j].previous_hash : j \in DOMAIN chain}
TamperedTransactions(txs) ==
  {<<>>, Reverse(txs), Append(txs, Tx("alice", "bob", 50)),
   SubSeq(txs, 1, Len(txs) - 1), SubSeq(txs, 2, Len(txs))}
    \cup {[txs EXCEPT ![j] = SetAmount(txs[j], Num(GetOr0(txs[j], "amount").n + 1))] :
            j \in DOMAIN txs}
    \cup {[txs EXCEPT ![j] = Reverse(txs[j])] : j \in DOMAIN txs}

Detected(ch) == is_chain_valid(ch, difficulty) = FALSE

\* C4: from a reachable (hence valid) chain, writing a different value over
\* one field of one block after the first, without mining it again, makes
\* is_chain_valid() return False.  A list of transactions is different
\* when Python finds it unequal.
C4_TamperDetected ==
  \A i \in 2 .. Len(chain) :
    /\ \A v \in TamperedIndexes :
         v # chain[i].index => Detected([chain EXCEPT ![i].index = v])
    /\ \A v \in TamperedTimestamps :
         v # chain[i].timestamp => Detected([chain EXCEPT ![i].timestamp = v])
    /\ \A v \in TamperedNonces(chain[i]) :
         v # chain[i].nonce => Detected([chain EXCEPT ![i].nonce = v])
    /\ \A v \in TamperedHashes(chain[i]) :
         v # chain[i].previous_hash
           => Detected([chain EXCEPT ![i].previous_hash = v])
    /\ \A v \in TamperedHashes(chain[i]) :
         v # chain[i].hash => Detected([chain EXCEPT ![i].hash = v])
    /\ \A v \in TamperedTransactions(chain[i].transactions) :
         ~TxsEq(v, chain[i].transactions)
           => Detected([chain EXCEPT ![i].transactions = v])

\* A valid chain of three blocks at difficulty zero, where no hash prefix
\* helps the validator, whose middle block holds a transfer that can be
\* altered.
C4_Witness ==
  /\ Len(chain) >= 3
  /\ difficulty = 0
  /\ is_chain_valid(chain, difficulty)
  /\ \E j \in DOMAIN chain[2].transactions :
       Get(chain[2].transactions[j], "amount") = Num(50)

\* C5: the chain is append-only.  No step shortens it or changes a block
\* already in it, it grows by at most one block per step, and a
\* mine_pending_transactions call grows it by exactly one.
C5_AppendOnly ==
  [][/\ Len(chain') \in {Len(chain), Len(chain) + 1}
     /\ \A i \in 1 .. Len(chain) : chain'[i] = chain[i]
     /\ \A m \in Miners, now \in Times :
          MinePendingTransactions(m, now) => Len(chain') = Len(chain) + 1]_vars

\* Two mined blocks, then a transaction accepted behind the reward.
C5_Witness == Len(chain) >= 3 /\ Len(pending_transactions) = 2

\* C6: add_transaction with a transaction that lacks 'from', 'to' or
\* 'amount' raises ValueError and leaves the pool and the chain as they
\* were.
C6_MalformedRejected ==
  [][\A t \in TxInputs :
       (AddTransaction(t) /\ ~({"from", "to", "amount"} \subseteq Keys(t)))
         => /\ raised' = "ValueError"
            /\ pending_transactions' = pending_transactions
            /\ chain' = chain]_vars

\* A rejected transaction, with a pool that holds something to lose.
C6_Witness == raised = "ValueError" /\ Len(pending_transactions) >= 1

\* C7: every entry of the pool has a non-empty 'from', a non-empty 'to' and
\* a numeric 'amount'.
C7_PoolEntriesWellTyped ==
  \A i \in DOMAIN pending_transactions :
    LET t == pending_transactions[i]
    IN  /\ Get(t, "from").t = "str" /\ Get(t, "from").s # ""
        /\ Get(t, "to").t = "str" /\ Get(t, "to").s # ""
        /\ Get(t, "amount").t = "num"

\* C8: the block a mine_pending_transactions call appends has the length
\* of the chain before the call as index, the hash of the block that was
\* the latest as previous_hash, and the pool as it was at the call, in
\* order, as transactions.
C8_NewBlockContents ==
  [][\A m \in Miners, now \in Times :
       MinePendingTransactions(m, now)
         => /\ Len(chain') = Len(chain) + 1
            /\ chain'[Len(chain')].index = Len(chain)
            /\ chain'[Len(chain')].previous_hash = chain[Len(chain)].hash
            /\ chain'[Len(chain')].transactions = pending_transactions]_vars

\* A mined block that holds the previous reward followed by a transaction
\* of a caller.
C8_Witness ==
  /\ Len(chain) >= 3
  /\ Len(chain[3].transactions) = 2
  /\ Get(chain[3].transactions[1], "type") = Str("mining_reward")
  /\ Get(chain[3].transactions[2], "type") = None

\* C9: right after mine_pending_transactions(m) the pool holds one
\* transaction, the reward from "system" to m of amount 100 and type
\* "mining_reward", whatever it held before.
C9_PoolReseeded ==
  [][\A m \in Miners, now \in Times :
       MinePendingTransactions(m, now)
         => /\ Len(pending_transactions') = 1
            /\ DictEq(pending_transactions'[1],
                       <<KV("from", Str("system")), KV("to", Str(m)),
                         KV("amount", Num(100)),
                         KV("type", Str("mining_reward"))>>)]_vars

\* A mine that found two transactions in the pool and left the reward.
C9_Witness ==
  /\ Len(chain) = 2
  /\ Len(chain[2].transactions) = 2
  /\ Len(pending_transactions) = 1

\* The sum over a sequence of transactions of the amounts received by
\* address less the amounts sent by it.
RECURSIVE NetSum(_, _)
NetSum(txs, address) ==
  IF txs = <<>> THEN 0
  ELSE LET t == Head(txs)
       IN  (IF Get(t, "to") = Str(address) THEN Get(t, "amount").n ELSE 0)
           - (IF Get(t, "from") = Str(address) THEN Get(t, "amount").n ELSE 0)
           + NetSum(Tail(txs), address)

\* C10: get_balance(a) returns the sum, over the transactions of the blocks
\* of the chain, of the amounts with to == a less the amounts with
\* from == a; the pool does not enter it.
C10_BalanceIsNetSum ==
  \A a \in Addresses :
    get_balance(chain, a) = [raised |-> "", val |-> NetSum(ChainTxs(chain), a)]

\* What get_balance does return: the sum above whenever it returns, and a
\* TypeError exactly when a block holds a transaction from or to the
\* address whose amount is no number.
BalanceIsNetSumUnlessTypeError ==
  \A a \in Addresses :
    LET r == get_balance(chain, a)
        txs == ChainTxs(chain)
        bad == \E j \in DOMAIN txs :
                 /\ Get(txs[j], "from") = Str(a) \/ Get(txs[j], "to") = Str(a)
                 /\ GetOr0(txs[j], "amount").t # "num"
    IN  /\ (r.raised = "TypeError") = bad
        /\ r.raised = "" => r.val = NetSum(txs, a)
        /\ r.raised \in {"", "TypeError"}


\* Number of mining rewards for miner m in a sequence of transactions.
RewardCount(txs, m) ==
  Cardinality({j \in DOMAIN txs : DictEq(txs[j], RewardTx(m))})

\* C11: the reward of a mine is credited one block late and once.  After
\* the k-th mine its reward is in the pool and in no block: the genesis
\* block and the first mined block hold no reward, so get_balance(m) is 0
\* after the first mine.  The (k+1)-th mine puts it in block k + 1 and
\* nowhere else: every later block holds exactly one reward.  After n
\* mines by m and no other transaction get_balance(m) is 100 * (n - 1).
C11_RewardOneBlockLate ==
  \A m \in Miners :
    /\ \A i \in 1 .. Len(chain) :
         RewardCount(chain[i].transactions, m) = IF i >= 3 THEN 1 ELSE 0
    /\ RewardCount(pending_transactions, m) = IF Len(chain) >= 2 THEN 1 ELSE 0
    /\ Len(chain) = 2 => get_balance(chain, m) = [raised |-> "", val |-> 0]
    /\ (Len(chain) >= 2 /\ CallerTxCount = 0)
         => get_balance(chain, m)
              = [raised |-> "", val |-> 100 * (Len(chain) - 2)]

\* Three mines in a row and no other transaction: the balance is 200.
C11_Witness ==
  /\ Len(chain) = 4
  /\ CallerTxCount = 0
  /\ get_balance(chain, "miner1").val = 200



\* The three conditions of the validator on block i of a chain.
HashConsistent(ch, i) == ch[i].hash = calculate_hash(ch[i])
LinkedToPrevious(ch, i) == ch[i].previous_hash = ch[i - 1].hash
HasProofOfWork(ch, i) == StartsWithZeros(ch[i].hash, difficulty)

\* Block b with its hash recomputed and no search for a nonce.
Rehashed(b) == [b EXCEPT !.hash = calculate_hash(b)]

\* Blocks a caller may put in the place of block b: a stale hash, another
\* nonce with the hash recomputed but not mined, another previous_hash with
\* the block mined again.
Rebuilt(b) ==
  {[b EXCEPT !.hash = ZeroHash],
   Rehashed([b EXCEPT !.nonce = b.nonce + 1]),
   Rehashed([b EXCEPT !.nonce = b.nonce + 2]),
   mine_block(Rehashed([b EXCEPT !.previous_hash = b.hash]), difficulty)}

\* The chain and the chains that differ from it in one block, the first
\* block included.
OneBlockRebuilt(ch) ==
  {ch} \cup UNION {{[ch EXCEPT ![i] = b] : b \in Rebuilt(ch[i])} :
                    i \in DOMAIN ch}

\* C15: is_chain_valid() is True exactly when every block after the first
\* has a stored hash equal to the recomputed one, the hash of the block
\* before it as previous_hash, and `difficulty` leading zeros.  The first
\* block is not checked: a chain of length 1 is valid whatever its block.
C15_ValidIffAllChecksPass ==
  /\ \A ch \in OneBlockRebuilt(chain) :
       is_chain_valid(ch, difficulty)
         = \A i \in 2 .. Len(ch) :
             /\ HashConsistent(ch, i)
             /\ LinkedToPrevious(ch, i)
             /\ HasProofOfWork(ch, i)
  /\ \A ch \in OneBlockRebuilt(SubSeq(chain, 1, 1)) :
       is_chain_valid(ch, difficulty)

\* A chain in which one block fails the proof-of-work check alone, another
\* chain in which one block fails the link check alone, and a first block
\* with a stale hash.
C15_Witness ==
  /\ \E ch \in OneBlockRebuilt(chain) : \E i \in 2 .. Len(ch) :
       /\ HashConsistent(ch, i) /\ LinkedToPrevious(ch, i)
       /\ ~HasProofOfWork(ch, i)
       /\ ~is_chain_valid(ch, difficulty)
  /\ \E ch \in OneBlockRebuilt(chain) : \E i \in 2 .. Len(ch) :
       /\ HashConsistent(ch, i) /\ HasProofOfWork(ch, i)
       /\ ~LinkedToPrevious(ch, i)
       /\ \A j \in 2 .. Len(ch) : j # i => LinkedToPrevious(ch, j)
  /\ \E ch \in OneBlockRebuilt(SubSeq(chain, 1, 1)) :
       ch[1].hash # calculate_hash(ch[1])



\* The ledger after a step is the ledger before it.
LedgerUnchanged ==
  /\ chain' = chain
  /\ pending_transactions' = pending_transactions
  /\ difficulty' = difficulty

\* C16: get_balance, is_chain_valid and get_chain_info are read-only.  A
\* step of any of them leaves the chain with every field of every block,
\* the pool and the difficulty as they were (mining_reward is a constant
\* here), and the same query on the state it leaves gives the same result,
\* an exception included.
C16_QueriesReadOnly ==
  [][/\ \A a \in Addresses :
          GetBalance(a)
            => /\ LedgerUnchanged
               /\ get_balance(chain', a) = get_balance(chain, a)
               /\ raised' = get_balance(chain', a).raised
     /\ IsChainValid
          => /\ LedgerUnchanged
             /\ is_chain_valid(chain', difficulty')
                  = is_chain_valid(chain, difficulty)
     /\ GetChainInfo
          => /\ LedgerUnchanged
             /\ get_chain_info(chain', pending_transactions', difficulty')
                  = get_chain_info(chain, pending_transactions, difficulty)]_vars

\* A get_balance call that raised on a ledger with a mined block and a pool
\* that is not empty.
C16_Witness ==
  /\ raised = "TypeError"
  /\ Len(chain) >= 2
  /\ pending_transactions # <<>>



\* C17: a ledger as the constructor leaves it, whatever the difficulty, has
\* a chain of exactly one block, whose index is 0, an empty pool, and
\* is_chain_valid() returns True on it.
C17_FreshLedger ==
  Init => /\ Len(chain) = 1
          /\ chain[1].index = 0
          /\ pending_transactions = <<>>
          /\ is_chain_valid(chain, difficulty) = TRUE

\* A ledger just constructed with the largest difficulty, whose first block
\* took a search.
C17_Witness ==
  /\ Init
  /\ difficulty = HashLen
  /\ chain[1].nonce > 0



\* C18: get_chain_info() describes the state it is called in: length is
\* the number of blocks, difficulty the configured one, is_valid what
\* is_chain_valid() returns, pending_transactions the size of the pool,
\* and latest_block the index, hash and timestamp of the last block of the
\* chain.  In every reachable state latest_block.index is length - 1.
C18_ChainInfoConsistent ==
  LET info == get_chain_info(chain, pending_transactions, difficulty)
  IN  /\ info.length = Len(chain)
      /\ info.difficulty = difficulty
      /\ info.is_valid = is_chain_valid(chain, difficulty)
      /\ info.pending_transactions = Len(pending_transactions)
      /\ info.latest_block.index = chain[Len(chain)].index
      /\ info.latest_block.hash = chain[Len(chain)].hash
      /\ info.latest_block.timestamp = chain[Len(chain)].timestamp
      /\ info.latest_block.index = info.length - 1
      /\ DOMAIN info = {"length", "difficulty", "is_valid",
                        "pending_transactions", "latest_block"}
      /\ DOMAIN info.latest_block = {"index", "hash", "timestamp"}

\* A chain of three blocks with different timestamps and a pool of two.
C18_Witness ==
  /\ Len(chain) = 3
  /\ chain[3].timestamp # chain[1].timestamp
  /\ Len(pending_transactions) = 2



\* The chain after a caller has appended a block it built itself with the
\* given index and previous_hash and mined to the difficulty.
WithAppended(index, now, previous_hash) ==
  Append(chain,
         mine_block(Block(index, now, pending_transactions, previous_hash),
                    difficulty))

\* Indexes and previous hashes a caller may give the block it appends.
AppendedIndexes == 0 .. Len(chain) + 1
AppendedPreviousHashes ==
  {ZeroHash} \cup {chain[j].hash : j \in DOMAIN chain}

\* C19: a block appended to a valid chain with a previous_hash that is not
\* the hash of the latest block, or with an index that is not the length of
\* the chain, makes is_chain_valid() return False, even though the block
\* was mined to the difficulty.
C19_WronglyBuiltBlockCaught ==
  \A index \in AppendedIndexes, now \in Times,
     previous_hash \in AppendedPreviousHashes :
    (previous_hash # get_latest_block(chain).hash \/ index # Len(chain))
      => is_chain_valid(WithAppended(index, now, previous_hash), difficulty)
           = FALSE

\* What the validator does catch: the wrong previous_hash, whatever the
\* index.  A block with the right previous_hash passes with any index.
WrongLinkCaughtWrongIndexNot ==
  \A index \in AppendedIndexes, now \in Times,
     previous_hash \in AppendedPreviousHashes :
    is_chain_valid(WithAppended(index, now, previous_hash), difficulty)
      = (previous_hash = get_latest_block(chain).hash)



\* The chain without its block at position i, and with the blocks at
\* positions i and j exchanged.
Deleted(ch, i) == SubSeq(ch, 1, i - 1) \o SubSeq(ch, i + 1, Len(ch))
Swapped(ch, i, j) == [ch EXCEPT ![i] = ch[j], ![j] = ch[i]]

\* C20: from a valid chain, deleting any one block, the first and the last
\* included, or exchanging two blocks gives a chain on which
\* is_chain_valid() returns False.
C20_DeleteOrSwapDetected ==
  /\ \A i \in DOMAIN chain :
       is_chain_valid(Deleted(chain, i), difficulty) = FALSE
  /\ \A i \in DOMAIN chain, j \in DOMAIN chain :
       i < j => is_chain_valid(Swapped(chain, i, j), difficulty) = FALSE

\* C20 as the validator has it: deleting a block that is neither the first
\* nor the last, or exchanging two blocks, gives a chain on which
\* is_chain_valid() returns False; without its first block, or without its
\* last block, the chain is still reported valid.
C20_InnerDeleteOrSwapDetected ==
  /\ \A i \in 2 .. Len(chain) - 1 :
       is_chain_valid(Deleted(chain, i), difficulty) = FALSE
  /\ \A i \in DOMAIN chain, j \in DOMAIN chain :
       i < j => is_chain_valid(Swapped(chain, i, j), difficulty) = FALSE
  /\ is_chain_valid(Deleted(chain, 1), difficulty) = TRUE
  /\ is_chain_valid(Deleted(chain, Len(chain)), difficulty) = TRUE

\* A chain of four blocks: two inner blocks to delete, six pairs to
\* exchange.
C20_Witness ==
  /\ Len(chain) = 4
  /\ is_chain_valid(chain, difficulty)



(***************************************************************************)
(* Properties of the calls run step by step (SpecMining, SpecThreads).     *)
(***************************************************************************)
\* The transactions that were accepted only while a
\* mine_pending_transactions call was between its copy of the pool and
\* its reset of the pool.
AcceptedInFlightOnly == accepted.window \ accepted.outside

InSeq(x, seq) == \E j \in DOMAIN seq : seq[j] = x

\* C12: a transaction accepted while a mine_pending_transactions call is
\* in flight, after the call copied the pool and before it reset the pool,
\* is in no block, neither the one that call appends nor a later one, and
\* is not in the pool once the call has returned.
C12_DropOnReplace ==
  \A x \in AcceptedInFlightOnly :
    /\ ~InSeq(x, ChainTxs(chain))
    /\ ~MineInFlight => ~InSeq(x, pending_transactions)

\* A transaction was accepted in flight and the call has returned.
DroppedTransactionSeen ==
  /\ AcceptedInFlightOnly # {}
  /\ ~MineInFlight
  /\ Len(chain) >= 2

\* The thread is in a mine_pending_transactions call.
InMine(th) == calls[th].op = "mine" /\ calls[th].pc # "idle"

\* C13: at most one mine_pending_transactions call is in flight at a time,
\* so no two calls read the same chain length, latest hash and pool: no two
\* blocks of the chain have the same index or the same previous_hash.
C13_OneMineInFlight ==
  /\ \A a \in Threads, b \in Threads : a # b => ~(InMine(a) /\ InMine(b))
  /\ \A i \in DOMAIN chain, j \in DOMAIN chain :
       i < j => /\ chain[i].index # chain[j].index
                /\ chain[i].previous_hash # chain[j].previous_hash

\* What two calls in flight at once do to the chain: two blocks with the
\* same index and previous_hash, and a chain is_chain_valid() rejects.
NoTwoBlocksShareIndex ==
  \A i \in DOMAIN chain, j \in DOMAIN chain :
    i < j => chain[i].index # chain[j].index

\* Some nonce from the block's own upwards gives the block a hash with d
\* leading zeros.  The digests repeat after Modulus nonces.
SomeNonceHasPrefix(b, d) ==
  \E n \in b.nonce .. b.nonce + Modulus - 1 :
    StartsWithZeros(calculate_hash([b EXCEPT !.nonce = n]), d)

\* C14: for every difficulty from 0 upwards the search of mine_block ends
\* with a hash that has the prefix: no search that is under way, of the
\* constructor or of mine_pending_transactions, is bound to run for ever,
\* that is, each has a nonce ahead of it whose hash has the prefix.
C14_SearchTerminates ==
  \A th \in Threads :
    calls[th].pc = "search" => SomeNonceHasPrefix(calls[th].block, difficulty)

\* What holds instead: the search ends exactly for the difficulties up to
\* the number of characters of a digest.
SearchTerminatesUpToHashLen ==
  \A th \in Threads :
    calls[th].pc = "search"
      => (SomeNonceHasPrefix(calls[th].block, difficulty)
            <=> difficulty <= HashLen)



\* The search run step by step ends on the block mine_block gives: when
\* the loop is about to exit, the block is mine_block of the block as
\* constructed.
SearchAgreesWithMineBlock ==
  \A th \in Threads :
    (calls[th].pc = "search"
       /\ StartsWithZeros(calls[th].block.hash, difficulty))
      => LET b == calls[th].block
         IN  b = mine_block(Block(b.index, b.timestamp, b.transactions,
                                  b.previous_hash), difficulty)



(***************************************************************************)
(* Properties of the ledger, continued.                                    *)
(***************************************************************************)
\* C21: add_transaction with a transaction that has the keys 'from', 'to'
\* and 'amount' returns, whatever the sign of the amount and the balance
\* of the sender, and puts exactly that transaction at the end of the
\* pool: one entry more, the earlier entries as they were, the chain
\* unchanged.
C21_WellKeyedAccepted ==
  [][\A t \in TxInputs :
       (AddTransaction(t) /\ {"from", "to", "amount"} \subseteq Keys(t))
         => /\ raised' = ""
            /\ Len(pending_transactions') = Len(pending_transactions) + 1
            /\ pending_transactions'[Len(pending_transactions')] = t
            /\ \A i \in DOMAIN pending_transactions :
                 pending_transactions'[i] = pending_transactions[i]
            /\ chain' = chain]_vars

\* A negative amount accepted behind a transfer of 50 from a sender whose
\* balance is 0.
C21_Witness ==
  /\ Len(pending_transactions) = 2
  /\ pending_transactions[1] = Tx("alice", "bob", 50)
  /\ pending_transactions[2] = Tx("bob", "bob", -7)
  /\ get_balance(chain, "alice") = [raised |-> "", val |-> 0]
  /\ raised = ""

\* C22: the timestamps of the blocks never decrease along the chain.
C22_TimestampsMonotonic ==
  \A i \in 2 .. Len(chain) : chain[i].timestamp >= chain[i - 1].timestamp


\* C30: a block is isolated from the caller: when the caller changes a
\* dict it passed to add_transaction, after the dict was mined into a
\* block, the transactions stored in the blocks stay what they were, every
\* block's hash is still calculate_hash() of the block, and a chain that
\* was valid is still valid.
C30_BlocksIsolated ==
  [][\A k \in 1 .. MaxCalls, v \in MutatedAmounts :
       CallerMutates(k, v)
         => /\ \A b \in DOMAIN chain :
                 /\ chain'[b].transactions = chain[b].transactions
                 /\ HashConsistent(chain', b)
            /\ is_chain_valid(chain, difficulty)
                 => is_chain_valid(chain', difficulty')]_vars

(***************************************************************************)
(* Properties of the galactic framework.                                   *)
(***************************************************************************)
\* C27: distribute_galactic_abundance(amount, recipients) with amount at
\* most the treasury balance and at least one recipient returns an
\* allocation that gives every recipient amount / len(recipients), whose
\* values sum to amount, and takes exactly amount from
\* galactic_treasury_balance.
C27_EqualSharesSumToAmount ==
  [][\A amount \in DistributeAmounts, recipients \in RecipientInputs :
       ( /\ DistributeGalacticAbundance(amount, recipients)
         /\ FloatLe(amount, framework.galactic_treasury_balance)
         /\ recipients # <<>> )
         => /\ framework'.ret.raised = ""
            /\ \A i \in DOMAIN recipients :
                 Get(framework'.ret.allocation, recipients[i])
                   = FloatDiv(amount, FloatInt(Len(recipients)))
            /\ FloatEq(SumValues(framework'.ret.allocation), amount)
            /\ framework'.galactic_treasury_balance
                 = FloatSub(framework.galactic_treasury_balance, amount)]_vars


\* No element is in the sequence twice.
Distinct(seq) == \A i, j \in DOMAIN seq : seq[i] = seq[j] => i = j

\* What holds for recipient lists that name no recipient twice: the
\* shares and the balance are as stated, and the sum of the shares
\* differs from amount by their rounding, less than a billionth of it
\* (three shares of 0.9 / 3 sum to 0.8999999999999999).
EqualSharesForDistinctRecipients ==
  [][\A amount \in DistributeAmounts, recipients \in RecipientInputs :
       ( /\ DistributeGalacticAbundance(amount, recipients)
         /\ FloatLe(amount, framework.galactic_treasury_balance)
         /\ recipients # <<>>
         /\ Distinct(recipients) )
         => /\ framework'.ret.raised = ""
            /\ \A i \in DOMAIN recipients :
                 Get(framework'.ret.allocation, recipients[i])
                   = FloatDiv(amount, FloatInt(Len(recipients)))
            /\ FloatLt(FloatAbs(FloatSub(
                         SumValues(framework'.ret.allocation), amount)),
                       FloatMul(FloatAbs(amount), Float(1, 1000000000)))
            /\ framework'.galactic_treasury_balance
                 = FloatSub(framework.galactic_treasury_balance, amount)]_vars

\* The sum of the shares is amount itself when no recipient is named
\* twice.  This does not hold: 0.9 to three recipients is a
\* counterexample.
DistinctRecipientsSumToAmount ==
  [][\A amount \in DistributeAmounts, recipients \in RecipientInputs :
       ( /\ DistributeGalacticAbundance(amount, recipients)
         /\ FloatLe(amount, framework.galactic_treasury_balance)
         /\ recipients # <<>>
         /\ Distinct(recipients) )
         => FloatEq(SumValues(framework'.ret.allocation), amount)]_vars


\* The dimensional_frequency of the portal is there and differs from 432
\* by at most 5% of 432, which is 21.6.  The difference of a float from
\* 432 that is near 21.6 is a float (no rounding), 21.6 is none, and the
\* float nearest to 21.6 is above it: a float is at most 21.6 exactly
\* when it is below that float.
FloatAboveFivePercent == Float(216, 10)

WithinFivePercent(portal) ==
  /\ Has(portal.coordinates, "dimensional_frequency")
  /\ LET f == Get(portal.coordinates, "dimensional_frequency")
     IN  FloatLt(FloatAbs(FloatSub(f, FloatInt(432))), FloatAboveFivePercent)

\* C28: anchor_abundance_portal, when it returns, has registered one more
\* portal, with the given id and dimension and the status ANCHORING.
\* activate_portal of a registered portal returns True exactly when the
\* portal's dimensional_frequency is within 5% of 432; it then sets the
\* status to ACTIVE and adds the dimension to synchronized_dimensions
\* unless it is there already; otherwise it returns False and leaves the
\* portals and synchronized_dimensions as they were.
C28_PortalLifecycle ==
  [][/\ \A portal_id \in PortalIds, dimension \in Dimensions,
          capacity \in Capacities, coordinates \in CoordinateInputs :
          ( /\ AnchorAbundancePortal(portal_id, dimension, capacity,
                                     coordinates)
            /\ framework'.ret.raised = "" )
            => /\ Len(framework'.portals) = Len(framework.portals) + 1
               /\ SubSeq(framework'.portals, 1, Len(framework.portals))
                    = framework.portals
               /\ LET new == framework'.portals[Len(framework'.portals)]
                  IN  /\ new.portal_id = portal_id
                      /\ new.dimension = dimension
                      /\ new.status = "anchoring"
     /\ \A portal_id \in PortalIds :
          ( /\ ActivatePortal(portal_id)
            /\ PortalAt(framework.portals, portal_id) # 0 )
            => LET i == PortalAt(framework.portals, portal_id)
                   portal == framework.portals[i]
                   dims == framework.synchronized_dimensions
                   there == \E k \in DOMAIN dims : dims[k] = portal.dimension
               IN  /\ framework'.ret.raised = ""
                   /\ framework'.ret.ok = WithinFivePercent(portal)
                   /\ IF WithinFivePercent(portal)
                      THEN /\ framework'.portals =
                                [framework.portals EXCEPT
                                   ![i].status = "active"]
                           /\ framework'.synchronized_dimensions =
                                IF there THEN dims
                                ELSE Append(dims, portal.dimension)
                           /\ Cardinality(
                                {k \in DOMAIN framework'.synchronized_dimensions :
                                   framework'.synchronized_dimensions[k]
                                     = portal.dimension}) = 1
                      ELSE /\ framework'.portals = framework.portals
                           /\ framework'.synchronized_dimensions = dims
    ]_vars

\* Two portals of one dimension, the first with a frequency given by the
\* caller; both have been activated, the second by the latest call, and
\* the dimension is in synchronized_dimensions once.
C28_Witness ==
  /\ Len(framework.portals) = 2
  /\ framework.portals[1].dimension = framework.portals[2].dimension
  /\ framework.portals[1].coordinates
       = <<KV("dimensional_frequency", FloatInt(411))>>
  /\ framework.portals[1].status = "active"
  /\ framework.portals[2].status = "active"
  /\ framework.ret.op = "activate_portal"
  /\ framework.ret.ok
  /\ framework.ret.portal_id = framework.portals[2].portal_id
  /\ Len(framework.synchronized_dimensions) = 1


\* C29: once a portal has been anchored and activated (its status is
\* ACTIVE, or SYNCHRONIZED, which only an activated portal gets), every
\* call of synchronize_portals reports active_portals > 0.
C29_SynchronizeReportsActive ==
  [][( /\ SynchronizePortals
       /\ \E i \in DOMAIN framework.portals :
            framework.portals[i].status \in {"active", "synchronized"} )
       => framework'.ret.active_portals > 0]_vars


(***************************************************************************)
(* Properties of the compliance engine.                                    *)
(***************************************************************************)
\* The entity holds an exemption from the rule: the rule id is in the list
\* that exemptions has for the entity.
HoldsExemption(entity_id, rule_id) ==
  \E i \in DOMAIN compliance.exemptions :
    /\ compliance.exemptions[i].k = entity_id
    /\ \E j \in DOMAIN compliance.exemptions[i].v :
         compliance.exemptions[i].v[j] = rule_id

\* C26: in every report of check_compliance, the one just returned and
\* the ones in compliance_records, compliant is True exactly when
\* violations is empty and exactly when overall_status is "compliant".  In
\* the report just returned, a rule from which the entity holds an
\* exemption has the status "exempt" in detailed_results and is not in
\* violations, and it is not evaluated: the call has returned a report
\* exactly when the checks of the other rules raise nothing.
C26_ReportConsistentExemptSkipped ==
  LET Consistent(report) ==
        /\ report.compliant <=> report.violations = <<>>
        /\ report.compliant <=> report.overall_status = "compliant"
      rules == {COMPLIANCE_RULES[i] : i \in DOMAIN COMPLIANCE_RULES}
      exempt == {r \in rules :
                   HoldsExemption(compliance.ret.entity_id, r.rule_id)}
      report == compliance.ret.report
  IN  /\ \A k \in DOMAIN compliance.compliance_records :
           Consistent(compliance.compliance_records[k])
      /\ compliance.ret.op = "check_compliance"
           => /\ (compliance.ret.raised = "")
                   <=> \A r \in rules \ exempt :
                         check_rule(r, compliance.ret.transaction_data).raised
                           = ""
              /\ compliance.ret.raised = ""
                   => /\ Consistent(report)
                      /\ report.entity_id = compliance.ret.entity_id
                      /\ \A r \in exempt :
                           /\ Get(report.detailed_results, r.rule_id)
                                = "exempt"
                           /\ \A k \in DOMAIN report.violations :
                                report.violations[k] # r.rule_id
                      /\ compliance.compliance_records # <<>>
                      /\ compliance.compliance_records[
                           Len(compliance.compliance_records)] = report

\* A report that is not compliant, for an entity that is exempt from
\* TRANSPARENCY and whose data lacks a required field: the one violation is
\* the missing consent.
C26_Witness ==
  /\ compliance.ret.op = "check_compliance"
  /\ compliance.ret.raised = ""
  /\ ~compliance.ret.report.compliant
  /\ compliance.ret.report.violations = <<"SOVEREIGN_RIGHTS">>
  /\ HoldsExemption(compliance.ret.report.entity_id, "TRANSPARENCY")
  /\ Get(compliance.ret.report.detailed_results, "TRANSPARENCY") = "exempt"


(***************************************************************************)
(* Properties of the wealth distributor.                                   *)
(***************************************************************************)
\* C25: for every strategy, every non-empty list of participants and every
\* positive total_amount, distribute returns an allocation whose values
\* sum to total_amount.
C25_AllocationSumsToTotal ==
  [][\A total_amount \in AmountInputs, participants \in ParticipantInputs,
        strategy \in StrategyInputs :
       ( /\ Distribute(total_amount, participants, strategy)
         /\ participants # <<>>
         /\ FloatLt(FloatInt(0), total_amount) )
         => /\ distributor'.ret.raised = ""
            /\ FloatEq(SumValues(distributor'.ret.allocation),
                       total_amount)]_vars

\* No stake, need_score or contribution_score is below 0.
NoNegativeScore(participants) ==
  \A i \in DOMAIN participants :
    /\ FloatLe(FloatInt(0), participants[i].stake)
    /\ FloatLe(FloatInt(0), participants[i].need_score)
    /\ FloatLe(FloatInt(0), participants[i].contribution_score)

\* What holds for lists of participants with distinct addresses and
\* scores that are not negative: the sum differs from total_amount by
\* the rounding of the shares, less than a billionth of total_amount.
DistinctAddressesSumNearTotal ==
  [][\A total_amount \in AmountInputs, participants \in ParticipantInputs,
        strategy \in StrategyInputs :
       ( /\ Distribute(total_amount, participants, strategy)
         /\ participants # <<>>
         /\ FloatLt(FloatInt(0), total_amount)
         /\ Distinct(AddressesOf(participants))
         /\ NoNegativeScore(participants) )
         => /\ distributor'.ret.raised = ""
            /\ FloatLt(FloatAbs(FloatSub(
                         SumValues(distributor'.ret.allocation),
                         total_amount)),
                       FloatMul(total_amount, Float(1, 1000000000)))]_vars


(***************************************************************************)
(* Properties of the encryption.                                           *)
(***************************************************************************)
\* The latest call was decrypt of a ciphertext as encrypt returned it, and
\* the keys are the ones it was made with.
DecryptOfUntouched ==
  /\ encryption.held.issued
  /\ ~encryption.held.rotated
  /\ encryption.ret.op = "decrypt"
  /\ encryption.ret.ciphertext = encryption.held.ciphertext

\* decrypt of that ciphertext has returned the plaintext and True.
DecryptsToPlaintext ==
  DecryptOfUntouched
    => encryption.ret.result = Verified(encryption.held.plaintext)

\* test_key_rotation: rotate_keys() returns another hash than
\* get_master_key_hash gave before it.
KeyRotationChangesHash ==
  [][RotateKeys(<<>>)
       => encryption'.ret.hash # get_master_key_hash(encryption)]_vars

\* Every draw of a random key gives a key of KeyLength bytes that no other
\* draw gives and that is not a given key, and no two master keys have
\* the same hash or the same layer keys.
RandomKeysFresh ==
  /\ \A draw \in 1 .. MaxRandomKeys :
       /\ Cardinality(RandomKeys(draw)) = Cardinality(RandomSeeds(draw))
       /\ \A key \in RandomKeys(draw) : Len(key) = KeyLength
       /\ \A other \in 1 .. MaxRandomKeys :
            other # draw => RandomKeys(other) \cap RandomKeys(draw) = {}
  /\ AllRandomKeys \cap GivenKeys = {}
  /\ \A key, other \in AllRandomKeys \cup GivenKeys :
       key # other
         => /\ sha3_digest(key) # sha3_digest(other)
            /\ \A layer \in 1 .. 3 :
                 LayerKey(key, layer) # LayerKey(other, layer)

\* The object has the master key of its latest draw or a given key, and
\* the layer keys derived from it.
KeysDerived ==
  encryption.constructed
    => /\ encryption.master_key
            \in GivenKeys \cup (IF encryption.drawn = 0 THEN {}
                                ELSE RandomKeys(encryption.drawn))
       /\ encryption = WithKeys(encryption, encryption.master_key)

\* rotate_keys that raises leaves the keys and the ciphertext's standing
\* as they were; rotate_keys that returns has drawn a key of the next
\* draw or encoded the key given.
RotationSetsKeys ==
  [][\A new_master_key \in MasterKeyInputs :
       RotateKeys(new_master_key)
         => IF encryption'.ret.raised # ""
            THEN /\ ~Encodable(new_master_key)
                 /\ [encryption' EXCEPT !.ret = encryption.ret] = encryption
            ELSE /\ encryption'.held.rotated
                 /\ encryption'.ret.hash = get_master_key_hash(encryption')
                 /\ encryption'.master_key
                      \in IF new_master_key = <<>>
                          THEN RandomKeys(encryption.drawn + 1)
                          ELSE {Utf8Encode(new_master_key)}]_vars

\* Byte strings the layers are applied to.
LayerInputs ==
  {Utf8Encode(p) : p \in {q \in Plaintexts : Encodable(q)}}
    \cup {<<0, 255, 128, 1, 77>>}

\* Under the current keys, layer 2 decryption inverts layer 2 encryption
\* and layer 1 applied twice gives the data back.
LayersInvert ==
  encryption.constructed =>
  \A data \in LayerInputs :
    /\ layer2_decrypt(encryption.layer2_key,
                      layer2_encrypt(encryption.layer2_key, data)) = data
    /\ layer1_decrypt(encryption.layer1_key,
                      layer1_encrypt(encryption.layer1_key, data)) = data
    /\ layer1_encrypt(encryption.layer1_key,
                      layer1_encrypt(encryption.layer1_key, data)) = data

\* The latest call was __init__ or rotate_keys.
KeyCall == encryption.ret.op \in {"__init__", "rotate_keys"}

\* C23: for every master key and every plaintext string, the constructor
\* and rotate_keys set the keys, encrypt returns a ciphertext and decrypt
\* of it returns the plaintext and True, as long as the keys are not
\* rotated in between; layer 2 decryption inverts layer 2 encryption and
\* layer 1 is its own inverse.
C23_RoundTrip ==
  /\ encryption.constructed
  /\ (KeyCall \/ encryption.ret.op = "encrypt") => encryption.ret.raised = ""
  /\ DecryptsToPlaintext
  /\ LayersInvert

\* C23, for the strings UTF-8 can encode: the constructor and rotate_keys
\* set the keys exactly for the master keys without a lone surrogate and
\* raise UnicodeEncodeError for the others, the constructor then leaving
\* no object; encrypt returns a ciphertext exactly for the plaintexts
\* without a lone surrogate and raises UnicodeEncodeError for the others;
\* for every master key the object has and every plaintext encrypt
\* returns a ciphertext for, decrypt of the ciphertext returns the
\* plaintext and True, as long as the keys are not rotated in between
\* (a rotate_keys that raised has not rotated them); layer 2 decryption
\* inverts layer 2 encryption and layer 1 is its own inverse.
C23_RoundTripEncodable ==
  /\ KeyCall
       => encryption.ret.raised
            = IF Encodable(encryption.ret.master_key)
              THEN "" ELSE "UnicodeEncodeError"
  /\ encryption.constructed
       = ~(encryption.ret.op = "__init__" /\ encryption.ret.raised # "")
  /\ encryption.ret.op = "encrypt"
       => encryption.ret.raised
            = IF Encodable(encryption.ret.plaintext)
              THEN "" ELSE "UnicodeEncodeError"
  /\ DecryptsToPlaintext
  /\ LayersInvert

\* decrypt has returned a plaintext of nine bytes, longer than the layer
\* keys, from the ciphertext encrypt made of it under the third random
\* master key of the object.
C23_Witness ==
  /\ DecryptOfUntouched
  /\ encryption.held.plaintext = <<72, 105, 33, 72, 105, 33, 72, 105, 33>>
  /\ encryption.ret.result = Verified(<<72, 105, 33, 72, 105, 33, 72, 105, 33>>)
  /\ encryption.drawn = 3
  /\ encryption.master_key \in RandomKeys(3)

\* The bytes encrypt produces for the plaintext under the current keys.
Combined(plaintext) ==
  LET encrypted == layer2_encrypt(encryption.layer2_key,
                     layer1_encrypt(encryption.layer1_key,
                                    Utf8Encode(plaintext)))
  IN  encrypted \o sha3_digest(encrypted \o encryption.layer3_key)

\* C24: decrypt never raises.  When the bytes of the ciphertext, the
\* encrypted bytes followed by the signature, are not the bytes encrypt
\* produces for a plaintext under the current keys, it returns
\* (None, False); it returns a plaintext only if the last bytes are the
\* layer-3 signature of the bytes before them.
C24_TamperedRejected ==
  encryption.ret.op = "decrypt"
    => LET decoded == b64decode(encryption.ret.ciphertext)
           genuine ==
             /\ decoded.raised = ""
             /\ \E p \in Plaintexts :
                  Encodable(p) /\ decoded.data = Combined(p)
           signed ==
             /\ decoded.raised = ""
             /\ SignaturePart(decoded.data)
                  = sha3_digest(EncryptedPart(decoded.data)
                                  \o encryption.layer3_key)
       IN  /\ encryption.ret.raised = ""
           /\ ~genuine => encryption.ret.result = NoneFalse
           /\ ~encryption.ret.result.is_none => signed
           /\ encryption.ret.result.verified = ~encryption.ret.result.is_none

\* decrypt has returned (None, False) for a ciphertext in which the caller
\* replaced one character of the encrypted bytes and which is still valid
\* base64; the object had rotated its keys twice to random keys before it
\* made the ciphertext.
C24_Witness ==
  /\ encryption.ret.op = "decrypt"
  /\ encryption.held.issued
  /\ ~encryption.held.rotated
  /\ encryption.drawn = 3
  /\ encryption.master_key \in RandomKeys(3)
  /\ encryption.held.plaintext = <<72, 105, 33, 72, 105, 33, 72, 105, 33>>
  /\ encryption.held.ciphertext
       = encrypt(encryption, encryption.held.plaintext).ciphertext
  /\ Len(encryption.ret.ciphertext) = Len(encryption.held.ciphertext)
  /\ encryption.ret.ciphertext[2] # encryption.held.ciphertext[2]
  /\ b64decode(encryption.ret.ciphertext).raised = ""
  /\ encryption.ret.result = NoneFalse

\* decrypt has returned (None, False) for a ciphertext the caller has not
\* changed, made under the first random key of the object, after two
\* rotations to random keys.
OldCiphertextRejected ==
  /\ encryption.ret.op = "decrypt"
  /\ encryption.ret.ciphertext = encryption.held.ciphertext
  /\ encryption.held.issued
  /\ encryption.held.rotated
  /\ encryption.held.drawn = 1
  /\ encryption.drawn = 3
  /\ encryption.ret.result = NoneFalse

\* The latest call was decrypt of the ciphertext the caller holds with
\* an 'x' in place of the last character before the padding, under the
\* keys the ciphertext was made with.
PaddingEdit ==
  /\ encryption.held.issued
  /\ ~encryption.held.rotated
  /\ encryption.ret.op = "decrypt"
  /\ encryption.ret.ciphertext # encryption.held.ciphertext
  /\ encryption.ret.ciphertext = PaddingEdited(encryption.held.ciphertext)

\* decrypt has returned the plaintext for such a ciphertext of the
\* plaintext given: the bits of the character that base64 drops are the
\* only ones that differ.
PaddingEditAccepted(plaintext) ==
  /\ PaddingEdit
  /\ encryption.held.plaintext = plaintext
  /\ encryption.ret.result = Verified(plaintext)

\* decrypt has returned (None, False) for such a ciphertext.
PaddingEditRejected(plaintext) ==
  /\ PaddingEdit
  /\ encryption.held.plaintext = plaintext
  /\ encryption.ret.result = NoneFalse

\* The plaintexts for which decrypt, under the keys of the master key,
\* accepts the ciphertext with the 'x' before the padding.
PaddingOutcome(key) ==
  LET e == WithKeys(Unconstructed, key)
  IN  {p \in {q \in Plaintexts : Encodable(q)} :
         decrypt(e, PaddingEdited(encrypt(e, p).ciphertext)) = Verified(p)}

\* What decrypt has returned for the ciphertexts the caller makes from
\* one encrypt returned, under the keys it was made with.  The plaintext
\* and True for the ciphertext as it was and for the ones that decode to
\* the same bytes: with a character outside the alphabet appended, with
\* the character after it in place of the last one before the padding,
\* and with an 'x' there under the keys that accept it; (None, False) for
\* every other one.
TamperedOutcomes ==
  ( /\ encryption.held.issued
    /\ ~encryption.held.rotated
    /\ encryption.ret.op = "decrypt" )
    => LET genuine == encryption.held.ciphertext
           last == LastBeforePadding(genuine)
           same_bytes ==
             {genuine, Append(genuine, OtherChar),
              [genuine EXCEPT ![last] = NextChar(genuine[last])]}
               \cup (IF encryption.held.plaintext
                          \in PaddingOutcome(encryption.master_key)
                     THEN {PaddingEdited(genuine)} ELSE {})
       IN  encryption.ret.result
             = IF encryption.ret.ciphertext \in same_bytes
               THEN Verified(encryption.held.plaintext) ELSE NoneFalse

\* The keys of every draw accept it for every set of plaintexts, and no
\* two keys of a draw for the same set.
EveryPaddingOutcome ==
  \A draw \in 1 .. MaxRandomKeys :
    /\ {PaddingOutcome(key) : key \in RandomKeys(draw)}
         = SUBSET {q \in Plaintexts : Encodable(q)}
    /\ \A key, other \in RandomKeys(draw) :
         key # other => PaddingOutcome(key) # PaddingOutcome(other)


(***************************************************************************)
(* Properties of Block.                                                    *)
(***************************************************************************)
\* The block as the constructor of Block built it: the four fields given,
\* nonce 0, the hash of these.
AsConstructed(b) ==
  Block(b.index, b.timestamp, b.transactions, b.previous_hash)

\* What the search has established of the block b so far: the hash is the
\* digest of the fields as they are, and no nonce from 0 up to the block's
\* own, that one left out, gives a digest with the d leading zeros.
SearchedUpTo(b, d) ==
  /\ b.nonce >= 0
  /\ b.hash = calculate_hash(b)
  /\ \A n \in 0 .. b.nonce - 1 :
       ~StartsWithZeros(calculate_hash([b EXCEPT !.nonce = n]), d)
  /\ b.nonce = 0 => b = AsConstructed(b)
  /\ d = 0 => b = AsConstructed(b)

\* The block b is the result of a search that is over: its nonce is the
\* smallest from 0 upwards whose digest has the d leading zeros.
SearchedOut(b, d) ==
  /\ SearchedUpTo(b, d)
  /\ StartsWithZeros(b.hash, d)

\* C31: a new Block has nonce 0 and the hash of its initial fields;
\* mine_block changes nonce and hash only, never index, timestamp,
\* transactions or previous_hash, and stops at the smallest nonce from 0
\* upwards whose digest has the leading zeros, which with difficulty 0 is
\* nonce 0 with the initial hash, no iteration made.  Every step of a
\* search keeps the four fields, and after every step each block under
\* search is searched up to its nonce and each block of the chain is
\* searched out.
C31_MineBlockSearch ==
  [][/\ \A th \in Threads :
          (calls[th].pc = "search" /\ calls'[th].pc = "search")
            => /\ calls'[th].block.index = calls[th].block.index
               /\ calls'[th].block.timestamp = calls[th].block.timestamp
               /\ calls'[th].block.transactions = calls[th].block.transactions
               /\ calls'[th].block.previous_hash = calls[th].block.previous_hash
               /\ calls'[th].block.nonce >= calls[th].block.nonce
               /\ difficulty = 0 => calls'[th].block = calls[th].block
     /\ \A th \in Threads :
          (calls[th].pc = "latest" /\ calls'[th].pc = "search")
            => /\ calls'[th].block = AsConstructed(calls'[th].block)
               /\ calls'[th].block.nonce = 0
     /\ \A th \in Threads :
          calls'[th].pc = "search"
            => SearchedUpTo(calls'[th].block, difficulty')
     /\ \A i \in 1 .. Len(chain') : SearchedOut(chain'[i], difficulty')
    ]_vars

\* The same of the states the constructor starts in.
NewBlockSearched ==
  \A th \in Threads :
    calls[th].pc = "search" => SearchedUpTo(calls[th].block, difficulty)

\* A search of several iterations has ended and its block, which holds
\* the reward of the block before it, is in the chain, and a block mined
\* with difficulty 0 is in a chain as it was constructed.
C31_Witness ==
  \/ /\ difficulty > 0
     /\ Len(chain) = 3
     /\ chain[3].nonce > 1
     /\ chain[3].transactions # <<>>
  \/ /\ difficulty = 0
     /\ Len(chain) = 2
     /\ chain[2] = AsConstructed(chain[2])


\* The sequence seq with x put in before its element k, or at the end.
InsertAt(seq, k, x) == SubSeq(seq, 1, k - 1) \o <<x>> \o SubSeq(seq, k, Len(seq))

\* The dicts Python finds equal to d: the same pairs inserted in any order.
RECURSIVE KeyOrders(_)
KeyOrders(d) ==
  IF d = <<>> THEN {<<>>}
  ELSE UNION {{InsertAt(p, k, Head(d)) : k \in 1 .. Len(p) + 1} :
                p \in KeyOrders(Tail(d))}

\* The lists of transactions that differ from txs in the order in which
\* the keys of one transaction, or of every transaction, were set.
ReorderedTransactions(txs) ==
  UNION {{[txs EXCEPT ![j] = d] : d \in KeyOrders(txs[j])} : j \in DOMAIN txs}
    \cup {[j \in DOMAIN txs |-> Reverse(txs[j])]}

\* C32: calculate_hash is a function of index, timestamp, transactions,
\* previous_hash and nonce and of nothing else: a block of the chain, the
\* same block with another value stored in its hash field, and the same
\* block with the keys of its transactions set in another order as well,
\* all have the same hash, while another index, timestamp or nonce gives
\* another hash.
C32_HashOfFiveFields ==
  \A i \in DOMAIN chain :
    LET b == chain[i]
        h == calculate_hash(b)
    IN  /\ \A v \in TamperedHashes(b) : calculate_hash([b EXCEPT !.hash = v]) = h
        /\ \A txs \in ReorderedTransactions(b.transactions) :
             /\ TxsEq(txs, b.transactions)
             /\ calculate_hash([b EXCEPT !.transactions = txs, !.hash = ZeroHash]) = h
        /\ calculate_hash([b EXCEPT !.index = b.index + 1]) # h
        /\ calculate_hash([b EXCEPT !.timestamp = b.timestamp + 1]) # h
        /\ calculate_hash([b EXCEPT !.nonce = b.nonce + 1]) # h

\* A mined block holds a transfer whose keys were not set in sorted order,
\* after a block holding another.
C32_Witness ==
  /\ Len(chain) >= 3
  /\ \E j \in DOMAIN chain[3].transactions :
       /\ Len(chain[3].transactions[j]) >= 3
       /\ SortKeys(chain[3].transactions[j]) # chain[3].transactions[j]
       /\ Cardinality(KeyOrders(chain[3].transactions[j])) >= 6


\* The first block of the chain is the genesis block as the constructor
\* builds it: index 0, previous_hash "0", the one marker transaction, mined
\* to the difficulty of the ledger.
GenesisFirst ==
  /\ Len(chain) >= 1
  /\ chain[1].index = 0
  /\ chain[1].previous_hash = ZeroHash
  /\ chain[1].transactions = <<GenesisTx>>
  /\ StartsWithZeros(chain[1].hash, difficulty)
  /\ chain[1] = create_genesis_block(difficulty, chain[1].timestamp)
  /\ get_latest_block(chain) = chain[Len(chain)]

\* C33: in every reachable state the chain is non-empty and its first
\* block is the genesis block built at construction (index 0,
\* previous_hash "0", exactly the marker transaction, a hash with the
\* difficulty prefix), which no later operation changes; get_latest_block
\* therefore has a last block to return, chain[len - 1].
C33_GenesisKept ==
  /\ []GenesisFirst
  /\ [][chain'[1] = chain[1]]_vars

\* Two blocks have been mined on top of a genesis block that had to be
\* searched for.
C33_Witness ==
  /\ Len(chain) >= 3
  /\ difficulty > 0
  /\ pending_transactions # <<>>
  /\ GenesisFirst
  /\ get_latest_block(chain) # chain[1]


(***************************************************************************)
(* Properties of the ledger shared by threads, continued.                  *)
(***************************************************************************)
\* What a reader finds once the call of thread th has appended: the block
\* of the call in the chain, with the fields the search ended on.
NewBlockOutOrIn(th) ==
  calls[th].pc = "reset" => \E i \in DOMAIN chain : chain[i] = calls[th].block

\* C34: at every point of a mine_pending_transactions call in flight,
\* after its copy of the pool, between two iterations of the search,
\* between the append and the reset of the pool, is_chain_valid() returns
\* True and get_balance reads a chain without the new block or with the
\* new block fully mined: every block of the chain has been mined to the
\* end.
C34_ValidDuringMine ==
  MineInFlight =>
    /\ is_chain_valid(chain, difficulty)
    /\ \A i \in DOMAIN chain : SearchedOut(chain[i], difficulty)
    /\ \A th \in Threads : InMine(th) => NewBlockOutOrIn(th)

\* What holds whoever mines: a block is in the chain only once its search
\* is over.
OnlyMinedBlocksInChain ==
  \A i \in DOMAIN chain : SearchedOut(chain[i], difficulty)


(***************************************************************************)
(* Properties of the sequential ledger: what becomes of the transactions.  *)
(***************************************************************************)
Rewards == {RewardTx(m) : m \in Miners}

\* A reward, then transactions of callers only.
RewardThenAccepted(txs) ==
  /\ txs # <<>>
  /\ txs[1] \in Rewards
  /\ \A j \in 2 .. Len(txs) : txs[j] \in WellKeyed

\* Block 1 holds transactions of callers only, every later block and,
\* after the first mine, the pool start with the reward of the mine before.
BlocksPartitionStream ==
  /\ Len(chain) >= 2
       => \A j \in DOMAIN chain[2].transactions :
            chain[2].transactions[j] \in WellKeyed
  /\ \A i \in 3 .. Len(chain) : RewardThenAccepted(chain[i].transactions)
  /\ IF Len(chain) >= 2
     THEN RewardThenAccepted(pending_transactions)
     ELSE \A j \in DOMAIN pending_transactions :
            pending_transactions[j] \in WellKeyed

\* C35: with the calls made one after the other no accepted transaction is
\* lost or duplicated.  An accepted transaction goes to the end of the
\* stream of transactions held, a refused one and a query leave the stream
\* alone, and a mine moves the whole pool, in its order, into the new last
\* block and starts the next pool with its reward, so that the stream only
\* grows at its end, one transaction per acceptance and one reward per
\* mine; block 1 is cut from it before the first reward and block k >= 2
\* starts with the reward of mine k - 1.
C35_NothingLostOrDuplicated ==
  /\ []BlocksPartitionStream
  /\ [][/\ \A t \in TxInputs :
             AddTransaction(t)
               => /\ Stream' = (IF raised' = "" THEN Append(Stream, t) ELSE Stream)
                  /\ chain' = chain
                  /\ raised' = "" <=> t \in WellKeyed
        /\ \A m \in Miners, now \in Times :
             MinePendingTransactions(m, now)
               => /\ Len(chain') = Len(chain) + 1
                  /\ \A i \in DOMAIN chain : chain'[i] = chain[i]
                  /\ chain'[Len(chain')].transactions = pending_transactions
                  /\ pending_transactions' = <<RewardTx(m)>>
                  /\ Stream' = Append(Stream, RewardTx(m))
        /\ (\A t \in TxInputs : ~AddTransaction(t))
             /\ (\A m \in Miners, now \in Times : ~MinePendingTransactions(m, now))
             => Stream' = Stream /\ chain' = chain
       ]_vars

\* Two mines have run, one transfer accepted between them: the second
\* block holds the reward of the first mine and then the transfer.
C35_Witness ==
  /\ Len(chain) = 3
  /\ chain[2].transactions = <<>>
  /\ chain[3].transactions = <<RewardTx("miner1"), Tx("alice", "bob", 50)>>
  /\ pending_transactions = <<RewardTx("miner1")>>


\* The addresses that are the 'from' or the 'to' of a transaction.
OccurringAddresses(txs) ==
  {Get(txs[j], "from").s : j \in {k \in DOMAIN txs : Has(txs[k], "from")}}
    \cup {Get(txs[j], "to").s : j \in {k \in DOMAIN txs : Has(txs[k], "to")}}

\* Every amount is an integer.
IntegerAmounts(txs) ==
  \A j \in DOMAIN txs : Has(txs[j], "amount") => Get(txs[j], "amount").t = "num"

\* The sum of the values get_balance returns for the addresses of a set.
RECURSIVE BalanceTotal(_, _)
BalanceTotal(ch, addresses) ==
  IF addresses = {} THEN 0
  ELSE LET a == CHOOSE x \in addresses : TRUE
       IN  get_balance(ch, a).val + BalanceTotal(ch, addresses \ {a})

\* C36: conservation.  In every reachable state whose chain holds integer
\* amounts only, of either sign, get_balance returns for every address
\* that is the 'from' or the 'to' of a transaction of the chain, "system"
\* among them, and the balances returned add up to zero.
C36_Conservation ==
  LET txs == ChainTxs(chain)
  IN  IntegerAmounts(txs)
        => /\ \A a \in OccurringAddresses(txs) : get_balance(chain, a).raised = ""
           /\ BalanceTotal(chain, OccurringAddresses(txs)) = 0

\* The chain holds integer amounts only, in a transfer between two
\* addresses and in a reward from "system".
C36_Witness ==
  LET txs == ChainTxs(chain)
  IN  /\ IntegerAmounts(txs)
      /\ OccurringAddresses(txs) = {"alice", "bob", "system", "miner1"}
      /\ get_balance(chain, "alice").val = -50
      /\ get_balance(chain, "bob").val = 50
      /\ get_balance(chain, "system").val = -100


(***************************************************************************)
(* Properties of the compliance engine, continued.                         *)
(***************************************************************************)
\* C37: for an entity that holds no exemption from DEBT_ELIMINATION, a
\* transaction with a negative amount whose type is neither
\* debt_forgiveness nor debt_elimination fails that rule: in the report
\* check_compliance returns, the detailed result of DEBT_ELIMINATION is
\* non_compliant and DEBT_ELIMINATION is in violations.
C37_NegativeAmountFailsDebtRule ==
  LET data == compliance.ret.transaction_data
      report == compliance.ret.report
      amount == GetOr(data, "amount", Num(0))
  IN  ( /\ compliance.ret.op = "check_compliance"
        /\ compliance.ret.raised = ""
        /\ ~HoldsExemption(compliance.ret.entity_id, "DEBT_ELIMINATION")
        /\ amount.t = "num"
        /\ amount.n < 0
        /\ GetOr(data, "type", None)
             \notin {Str("debt_forgiveness"), Str("debt_elimination")} )
        => /\ Get(report.detailed_results, "DEBT_ELIMINATION") = "non_compliant"
           /\ \E k \in DOMAIN report.violations :
                report.violations[k] = "DEBT_ELIMINATION"

\* What the code does with every amount it can compare with 0: the rule
\* is reported compliant and is never in violations.
DebtRuleNeverViolated ==
  compliance.ret.op = "check_compliance" /\ compliance.ret.raised = ""
    => /\ Get(compliance.ret.report.detailed_results, "DEBT_ELIMINATION")
            = "compliant"
       /\ \A k \in DOMAIN compliance.ret.report.violations :
            compliance.ret.report.violations[k] # "DEBT_ELIMINATION"


(***************************************************************************)
(* Properties of the galactic framework, continued.                        *)
(***************************************************************************)
\* C38: galactic_treasury_balance is at least 0 in every state that
\* deposit_to_galactic_treasury and distribute_galactic_abundance calls
\* lead to.  A deposit of an amount that is not positive raises ValueError
\* and so does a distribution of more than the balance or to no
\* recipient, and these leave the balance as it was; every other call
\* returns.
C38_TreasuryNeverNegative ==
  /\ [](framework.constructed
          => FloatLe(FloatInt(0), framework.galactic_treasury_balance))
  /\ [][/\ \A amount \in DepositAmounts :
             DepositToGalacticTreasury(amount)
               => IF FloatLe(amount, FloatInt(0))
                  THEN /\ framework'.ret.raised = "ValueError"
                       /\ framework'.galactic_treasury_balance
                            = framework.galactic_treasury_balance
                  ELSE /\ framework'.ret.raised = ""
                       /\ framework'.galactic_treasury_balance
                            = FloatAdd(framework.galactic_treasury_balance, amount)
        /\ \A amount \in DistributeAmounts, recipients \in RecipientInputs :
             DistributeGalacticAbundance(amount, recipients)
               => IF \/ FloatLt(framework.galactic_treasury_balance, amount)
                     \/ recipients = <<>>
                  THEN /\ framework'.ret.raised = "ValueError"
                       /\ framework'.galactic_treasury_balance
                            = framework.galactic_treasury_balance
                  ELSE framework'.ret.raised = ""
       ]_vars

\* What holds instead: the balance is at least 0 or no number, and it is
\* no number once float('nan') has been deposited.
TreasuryNeverNegativeUnlessNaN ==
  framework.constructed
    => \/ FloatLe(FloatInt(0), framework.galactic_treasury_balance)
       \/ IsNaN(framework.galactic_treasury_balance)


(***************************************************************************)
(* Properties of the compliance engine: exemptions.                        *)
(***************************************************************************)
\* The exemptions as a set: the pairs of an entity and a rule that is in
\* the list of the entity.
ExemptPairs(exemptions) ==
  UNION {{<<exemptions[i].k, exemptions[i].v[j]>> : j \in DOMAIN exemptions[i].v} :
           i \in DOMAIN exemptions}

\* No list of exemptions names a rule twice.
NoRuleListedTwice ==
  \A i \in DOMAIN compliance.exemptions :
    Distinct(compliance.exemptions[i].v)

\* In the report just returned a rule has the status "exempt" exactly when
\* the entity holds an exemption from it, and the status its check gives
\* otherwise.
ExemptExactlyWhenHeld ==
  (compliance.ret.op = "check_compliance" /\ compliance.ret.raised = "")
    => \A i \in DOMAIN COMPLIANCE_RULES :
         LET rule == COMPLIANCE_RULES[i]
             status == Get(compliance.ret.report.detailed_results, rule.rule_id)
         IN  IF HoldsExemption(compliance.ret.entity_id, rule.rule_id)
             THEN status = "exempt"
             ELSE status = check_rule(rule, compliance.ret.transaction_data).status

\* C39: the exemptions of an entity behave as a set.  From every reachable
\* state, add_exemption adds the pair of entity and rule and no other,
\* and adding it again changes nothing; remove_exemption after it takes
\* the pair away and no other; remove_exemption of a pair that is not
\* there changes nothing; and check_compliance reports a rule exempt
\* exactly when the entity holds the exemption at the call, so it evaluates
\* the rule again after a removal.
C39_ExemptionsAreASet ==
  compliance.constructed
    => LET held == compliance.exemptions
           pairs == ExemptPairs(held)
       IN  /\ NoRuleListedTwice
           /\ ExemptExactlyWhenHeld
           /\ \A e \in Entities, r \in ExemptionRules :
                LET added == add_exemption(held, e, r)
                    removed == remove_exemption(held, e, r)
                    both == remove_exemption(added, e, r)
                IN  /\ ExemptPairs(added) = pairs \cup {<<e, r>>}
                    /\ is_exempt(added, e, r)
                    /\ add_exemption(added, e, r) = added
                    /\ <<e, r>> \in pairs => added = held
                    /\ ExemptPairs(both) = pairs \ {<<e, r>>}
                    /\ ~is_exempt(both, e, r)
                    /\ ExemptPairs(removed) = pairs \ {<<e, r>>}
                    /\ ~is_exempt(removed, e, r)
                    /\ <<e, r>> \notin pairs => removed = held

\* An entity's exemption from TRANSPARENCY has been added and removed,
\* another entity holds one, and a check for the first, on data that lack a
\* required field, has evaluated the rule and found it violated.
C39_Witness ==
  /\ compliance.constructed
  /\ Has(compliance.exemptions, "e1")
  /\ Get(compliance.exemptions, "e1") = <<>>
  /\ HoldsExemption("e2", "TRANSPARENCY")
  /\ compliance.ret.op = "check_compliance"
  /\ compliance.ret.raised = ""
  /\ compliance.ret.entity_id = "e1"
  /\ Get(compliance.ret.report.detailed_results, "TRANSPARENCY") = "non_compliant"

=============================================================================
